---- MODULE Spec2Model ----
(***************************************************************************)
(* Model of the agent loop of backend/app/services/gemini_service.py       *)
(* (GeminiService.stream_chat): one invocation of the async generator,     *)
(* with the model client (chat.send_message_async and its streamed         *)
(* response) and the tool executor (the execute_tool callback) as the      *)
(* environment.  Every `yield` of the generator appends one record to      *)
(* `events`; every call into the environment is logged in a history        *)
(* variable (`sent`, `streamed`, `invoked`, `outcomes`).                   *)
(*                                                                         *)
(* Second part: the two-stage inference pipeline of                        *)
(* backend/app/services/task_inference.py (classify_message,               *)
(* extract_task_details, infer_task_from_message), with the model client   *)
(* (gemini_service.generate_text, generate_structured_async), uuid4 and    *)
(* the clock as the environment.  Text is a sequence of characters; an     *)
(* Optional value is a sequence of length 0 (None) or 1.                   *)
(***************************************************************************)
EXTENDS Integers, Sequences, FiniteSets, TLC

\* ------------------------------------------------------------------ bounds
\* stream_chat is called with max_steps in 0..MaxStepsBound
MaxStepsBound == 2
\* items (non-empty text fragments and function calls) the model client
\* streams during one invocation
MaxStreamed == 3
\* length of the `messages` argument
MaxMsgs == 2
\* message contents are up to MaxExtra characters shorter or longer than the
\* two truncation limits
MaxExtra == 1
\* proposals built by the calls of infer_task_from_message of one behaviour
MaxProposals == 2

\* --------------------------------------------------------- program constants
\* content[:500] in the classification prompt
ClassifyPrefix == 500
\* original_content=context.content[:1000]
StoredPrefix == 1000
\* confidence_threshold: float = 0.6, in hundredths
DefaultThreshold == 60
\* confidence: float = Field(..., ge=0.00, le=1.00), in hundredths
MinConfidence == 0
MaxConfidence == 100

\* calls of add_proposal for single proposals in one behaviour
MaxStored == 2
\* requests of the proposals router in one behaviour
MaxRequests == 2

\* trigger events delivered in one behaviour
MaxDelivered == 1

\* get_proposals(entity_id, limit=50)
ProposalLimit == 50

\* max_steps=5 in the call of stream_chat of the chat endpoint
ChatMaxSteps == 5

\* ------------------------------------------------------- the input domains
Roles == <<"system", "user", "assistant">>

\* the role lists of the conversations stream_chat is called with: the
\* windows of up to MaxMsgs messages of a conversation that goes system,
\* user, assistant, system, ..., so that every role occurs at every position
MessageLists ==
    { [i \in 1..n |-> Roles[((o + i - 2) % 3) + 1]] : n \in 0..MaxMsgs, o \in 1..3 }

MessageOf(roles) ==
    [i \in 1..Len(roles) |-> [role |-> roles[i], content |-> <<"msg", i>>]]

\* chunk.text of a streamed chunk: empty (falsy) or a fragment
Texts == {"", "fragment"}

\* the k-th function call the model client requests in an invocation: the
\* calls differ from each other, and fc.args is empty (falsy) for every
\* second one
FunctionCall(k) ==
    [name |-> IF k % 2 = 1 THEN "GMAIL_FETCH_EMAILS" ELSE "SLACK_SEARCH",
     args |-> IF k % 2 = 1 THEN <<"query", k>> ELSE <<>>]

\* what awaiting execute_tool(name, args) -> dict can return: a dict that
\* json.dumps and Struct.update accept, a dict holding a value Struct.update
\* rejects (it raises ValueError), or a dict json.dumps(default=str) rejects
\* (it raises TypeError); the callback may also raise (ToolExceptions)
ToolResults ==
    { [isdict |-> TRUE, loggable |-> TRUE, convertible |-> TRUE,
       value |-> <<"data", "rows">>],
      [isdict |-> TRUE, loggable |-> TRUE, convertible |-> FALSE,
       value |-> <<"data", "datetime">>],
      [isdict |-> TRUE, loggable |-> FALSE, convertible |-> FALSE,
       value |-> <<"data", "tuple key">>] }

ToolExceptions == {"tool failed"}
ModelExceptions == {"model failed"}
ConversionException == "Unexpected type"
LoggingException == "keys must be str, int, float, bool or None"

\* ------------------------------------------------------------------- state
VARIABLES
    pc,                  \* position of the generator
    messages,            \* argument
    max_steps,           \* argument
    execute_tool,        \* argument: TRUE iff a callback was supplied
    history,             \* chat history handed to model.start_chat
    current_message,     \* message the next send_message_async submits
    step,                \* loop variable of `for step in range(max_steps)`
    tool_calls,          \* tool calls collected in this step
    tool_response_parts, \* function-response parts built in this step
    tc,                  \* index into tool_calls of `for tc in tool_calls`
    events,              \* the records yielded so far, in order
    event_step,          \* for each yielded record, the step that yielded it
    sent,                \* the calls of chat.send_message_async, in order
    streamed,            \* what the model client streamed or raised, in order
    invoked,             \* the calls of execute_tool, in order
    outcomes,            \* how each finished call of execute_tool ended
    inflight,            \* indices of `invoked` awaited and not yet finished
    ntexts,              \* text fragments streamed so far
    ncalls               \* function calls streamed so far

vars == <<pc, messages, max_steps, execute_tool, history, current_message,
          step, tool_calls, tool_response_parts, tc, events,
          event_step, sent, streamed, invoked, outcomes, inflight, ntexts,
          ncalls>>

\* the inference pipeline (task_inference.py)
VARIABLES
    ipc,                  \* position of infer_task_from_message
    context,              \* argument: the MessageContext
    confidence_threshold, \* argument, in hundredths
    prompt,               \* prompt handed to gemini_service.generate_text
    generated,            \* what generate_text did: Optional outcome
    classification,       \* what classify_message returned: Optional text
    user_prompt,          \* prompt handed to generate_structured_async: Optional
    structured,           \* what generate_structured_async did: Optional outcome
    extraction,           \* what extract_task_details returned: Optional
    proposal,             \* what infer_task_from_message returned: Optional proposal
    model_calls,          \* the model-client calls of this invocation, in order
    created               \* proposal_id of every proposal built so far, in order

inferVars == <<ipc, context, confidence_threshold, prompt, generated,
               classification, user_prompt, structured, extraction,
               proposal, model_calls, created>>

\* the chat endpoint (routers/chat.py, generate)
VARIABLES
    gpc,                  \* position of the generator generate()
    connected_apps,       \* what get_connections returned
    tools,                \* what get_tools returned ({} when not called)
    records,              \* the SSE records generate() yielded, in order
    handled               \* exception the except of generate() handled: Optional

routerVars == <<gpc, connected_apps, tools, records, handled>>

\* the proposal store (redis_service.py) and its routers (routers/proposals.py)
VARIABLES
    stored,               \* the Redis list proposals:{USER_ID}, newest first
    notion_database_id,   \* the setting settings:{USER_ID}:notion_database_id: Optional
    req,                  \* the frame of each request of the proposals router
    added,                \* every item pushed to the list, in order
    removals,             \* every item removed from the list, with its request
    rows                  \* every Notion row created, with its request

storeVars == <<stored, notion_database_id, req, added, removals, rows>>

\* the trigger listener (services/trigger_listener.py, TriggerListener)
VARIABLES
    running,              \* self.running
    thread,               \* self.thread: "none", or the thread "alive" or "dead"
    handlers,             \* the sources a handler is registered for
    stop_returned,        \* stop() has returned
    lpc,                  \* the handler coroutine in flight: "idle", "gmail", "slack"
    log                   \* the trigger events delivered, in order

listenerVars == <<running, thread, handlers, stop_returned, lpc, log>>

allVars == <<vars, inferVars, routerVars, storeVars, listenerVars>>

\* what the steps of each part leave alone
outsideStreamChat == <<inferVars, routerVars, storeVars, listenerVars>>
outsideInference == <<vars, routerVars, storeVars, listenerVars>>
outsideRouter == <<inferVars, storeVars, listenerVars>>
outsideStore == <<vars, inferVars, routerVars, listenerVars>>

argVars == <<messages, max_steps, execute_tool, history>>
stepVars == <<tool_calls, tool_response_parts, tc>>
envVars == <<sent, streamed, invoked, outcomes, inflight, ntexts, ncalls>>

\* ------------------------------------------------------------ data helpers
TextMessage(content) == [text |-> content]

Content(role, parts) == [role |-> role, parts |-> parts]

Part_from_text(content) == [text |-> content]

Part_from_function_response(name, response) ==
    [function_response |-> [name |-> name, response |-> response]]

TextEvent(content) == [type |-> "text", content |-> content]

ToolCallEvent(tool_call) ==
    [type |-> "tool_call", name |-> tool_call.name, args |-> tool_call.args]

ToolResultEvent(name, result) ==
    [type |-> "tool_result", name |-> name, result |-> result]

ErrorEvent(e) == [type |-> "error", content |-> e]

DoneEvent == [type |-> "done"]

\* "args": dict(fc.args) if fc.args else {}
ToolCallOf(fc) ==
    [name |-> fc.name, args |-> IF fc.args # <<>> THEN fc.args ELSE <<>>]

\* error_result = {"error": str(e)}
ErrorResult(e) ==
    [isdict |-> TRUE, loggable |-> TRUE, convertible |-> TRUE,
     value |-> <<"error", e>>]

\* response_struct.update({"result": result} if not isinstance(result, dict) else result)
StructOf(result) ==
    IF result.isdict
        THEN result
        ELSE [isdict |-> TRUE, loggable |-> result.loggable,
              convertible |-> result.convertible,
              value |-> <<"result", result.value>>]

_convert_messages(msgs) ==
    LET kept == SelectSeq(msgs, LAMBDA m : m.role # "system")
    IN  [i \in 1..Len(kept) |->
            Content(IF kept[i].role = "assistant" THEN "model" ELSE "user",
                    <<Part_from_text(kept[i].content)>>)]

Emit(evs) ==
    /\ events' = events \o evs
    /\ event_step' = event_step \o [i \in 1..Len(evs) |-> step]

\* yield the records evs, break out of the loop, yield {"type": "done"}: the
\* generator has finished
BreakAndYieldDone(evs) ==
    /\ Emit(evs \o <<DoneEvent>>)
    /\ pc' = "terminated"

\* Optional[T]: None, or a value
None == <<>>

Some(x) == <<x>>

\* -------------------------------------------------------------------- Init
Init ==
    /\ pc = "idle"
    /\ messages = <<>>
    /\ max_steps = 0
    /\ execute_tool = FALSE
    /\ history = <<>>
    /\ current_message = TextMessage(<<>>)
    /\ step = 0
    /\ tool_calls = <<>>
    /\ tool_response_parts = <<>>
    /\ tc = 1
    /\ events = <<>>
    /\ event_step = <<>>
    /\ sent = <<>>
    /\ streamed = <<>>
    /\ invoked = <<>>
    /\ outcomes = <<>>
    /\ inflight = {}
    /\ ntexts = 0
    /\ ncalls = 0
    /\ ipc = "idle"
    /\ context = None
    /\ confidence_threshold = DefaultThreshold
    /\ prompt = None
    /\ generated = None
    /\ classification = None
    /\ user_prompt = None
    /\ structured = None
    /\ extraction = None
    /\ proposal = None
    /\ model_calls = <<>>
    /\ created = <<>>
    /\ gpc = "idle"
    /\ connected_apps = <<>>
    /\ tools = {}
    /\ records = <<>>
    /\ handled = None
    /\ stored = <<>>
    /\ notion_database_id = None
    /\ req = [r \in 1..MaxRequests |->
                 [op |-> "none", proposal_id |-> "", rpc |-> "new",
                  database_id |-> None, found |-> None, result |-> None,
                  to_remove |-> None, returned |-> None, status |-> 0,
                  version |-> 0]]
    /\ added = <<>>
    /\ removals = <<>>
    /\ rows = <<>>
    /\ running = FALSE
    /\ thread = "none"
    /\ handlers = {}
    /\ stop_returned = FALSE
    /\ lpc = "idle"
    /\ log = <<>>

\* ----------------------------------------------------------------- actions
\* StreamChatCall taking the first message instead of the last as the current
\* message
StreamChatCallFirstMessage ==
    /\ pc = "idle"
    /\ \E roles \in MessageLists, ms \in 0..MaxStepsBound, et \in BOOLEAN :
          LET msgs == MessageOf(roles) IN
          /\ messages' = msgs
          /\ max_steps' = ms
          /\ execute_tool' = et
          /\ history' = IF Len(msgs) > 1
                            THEN _convert_messages(SubSeq(msgs, 1, Len(msgs) - 1))
                            ELSE <<>>
          /\ current_message' = IF msgs # <<>>
                                    THEN TextMessage(msgs[1].content)
                                    ELSE TextMessage(<<>>)
    /\ step' = 0
    /\ pc' = "loop"
    /\ UNCHANGED <<stepVars, events, event_step, envVars>>

\* the call and the code before the loop
StreamChatCall ==
    /\ pc = "idle"
    /\ \E roles \in MessageLists, ms \in 0..MaxStepsBound, et \in BOOLEAN :
          LET msgs == MessageOf(roles) IN
          /\ messages' = msgs
          /\ max_steps' = ms
          /\ execute_tool' = et
          /\ history' = IF Len(msgs) > 1
                            THEN _convert_messages(SubSeq(msgs, 1, Len(msgs) - 1))
                            ELSE <<>>
          /\ current_message' = IF msgs # <<>>
                                    THEN TextMessage(msgs[Len(msgs)].content)
                                    ELSE TextMessage(<<>>)
    /\ step' = 0
    /\ pc' = "loop"
    /\ UNCHANGED <<stepVars, events, event_step, envVars>>

\* SendMessage with the loop running one step too many: range(max_steps + 1)
SendMessageOneStepMore ==
    /\ pc = "loop"
    /\ step <= max_steps
    /\ sent' = Append(sent, [step |-> step, message |-> current_message])
    /\ tool_calls' = <<>>
    /\ pc' = "stream"
    /\ UNCHANGED <<argVars, current_message, step, tool_response_parts, tc, events, event_step, streamed,
                   invoked, outcomes, inflight, ntexts, ncalls>>

\* for step in range(max_steps): ... response = await chat.send_message_async(...)
SendMessage ==
    /\ pc = "loop"
    /\ step < max_steps
    /\ sent' = Append(sent, [step |-> step, message |-> current_message])
    /\ tool_calls' = <<>>
    /\ pc' = "stream"
    /\ UNCHANGED <<argVars, current_message, step, tool_response_parts, tc, events, event_step, streamed,
                   invoked, outcomes, inflight, ntexts, ncalls>>

\* SendMessageRaises without the break: the loop goes on to the next step
SendMessageRaisesContinues(e) ==
    /\ pc = "loop"
    /\ step < max_steps
    /\ sent' = Append(sent, [step |-> step, message |-> current_message])
    /\ streamed' = Append(streamed, [step |-> step, kind |-> "raise", error |-> e])
    /\ Emit(<<ErrorEvent(e)>>)
    /\ step' = step + 1
    /\ UNCHANGED <<pc, argVars, current_message, stepVars, invoked, outcomes,
                   inflight, ntexts, ncalls>>

\* send_message_async raises: except Exception -> yield error; break
SendMessageRaises(e) ==
    /\ pc = "loop"
    /\ step < max_steps
    /\ sent' = Append(sent, [step |-> step, message |-> current_message])
    /\ streamed' = Append(streamed, [step |-> step, kind |-> "raise", error |-> e])
    /\ BreakAndYieldDone(<<ErrorEvent(e)>>)
    /\ UNCHANGED <<argVars, current_message, step, stepVars, invoked, outcomes,
                   inflight, ntexts, ncalls>>

\* range(max_steps) is exhausted: yield {"type": "done"}
LoopExit ==
    /\ pc = "loop"
    /\ step >= max_steps
    /\ BreakAndYieldDone(<<>>)
    /\ UNCHANGED <<argVars, current_message, step, stepVars, envVars>>

\* what `streamed` records of a chunk: its text unless empty, then its
\* function calls
StreamedItems(c) ==
    (IF c.text # "" THEN <<[step |-> step, kind |-> "text", text |-> c.text]>>
                    ELSE <<>>)
        \o [i \in 1..Len(c.function_calls) |->
               [step |-> step, kind |-> "function_call", fc |-> c.function_calls[i]]]

TextCount(c) == IF c.text # "" THEN 1 ELSE 0

\* the records the body of the async for yields for a chunk: the text if it
\* is not empty, then one tool_call per function call, in order
ChunkEvents(c) ==
    (IF c.text # "" THEN <<TextEvent(c.text)>> ELSE <<>>)
        \o [i \in 1..Len(c.function_calls) |->
               ToolCallEvent(ToolCallOf(c.function_calls[i]))]

\* NextChunk yielding the tool calls of a chunk before its text
NextChunkCallsFirst(c) ==
    /\ pc = "stream"
    /\ ntexts + ncalls + TextCount(c) + Len(c.function_calls) <= MaxStreamed
    /\ ntexts' = ntexts + TextCount(c)
    /\ ncalls' = ncalls + Len(c.function_calls)
    /\ streamed' = streamed \o StreamedItems(c)
    /\ tool_calls' = tool_calls \o [i \in 1..Len(c.function_calls) |->
                                       ToolCallOf(c.function_calls[i])]
    /\ Emit([i \in 1..Len(c.function_calls) |->
                ToolCallEvent(ToolCallOf(c.function_calls[i]))]
            \o (IF c.text # "" THEN <<TextEvent(c.text)>> ELSE <<>>))
    /\ UNCHANGED <<pc, argVars, current_message, step, tool_response_parts,
                   tc, sent, invoked, outcomes, inflight>>

\* async for chunk in response: the next chunk arrives and the body of the
\* loop handles it: yield text, then collect and yield each tool call
NextChunk(c) ==
    /\ pc = "stream"
    /\ ntexts + ncalls + TextCount(c) + Len(c.function_calls) <= MaxStreamed
    /\ ntexts' = ntexts + TextCount(c)
    /\ ncalls' = ncalls + Len(c.function_calls)
    /\ streamed' = streamed \o StreamedItems(c)
    /\ tool_calls' = tool_calls \o [i \in 1..Len(c.function_calls) |->
                                       ToolCallOf(c.function_calls[i])]
    /\ Emit(ChunkEvents(c))
    /\ UNCHANGED <<pc, argVars, current_message, step, tool_response_parts,
                   tc, sent, invoked, outcomes, inflight>>

\* StreamRaises with the tool loop outside the try: after the error record
\* the tool calls collected before the failure are executed
StreamRaisesRunsTools(e) ==
    /\ pc = "stream"
    /\ streamed' = Append(streamed, [step |-> step, kind |-> "raise", error |-> e])
    /\ IF tool_calls # <<>> /\ execute_tool
          THEN /\ Emit(<<ErrorEvent(e)>>)
               /\ tool_response_parts' = <<>>
               /\ tc' = 1
               /\ pc' = "tools"
          ELSE /\ BreakAndYieldDone(<<ErrorEvent(e)>>)
               /\ UNCHANGED <<tool_response_parts, tc>>
    /\ UNCHANGED <<argVars, current_message, step, tool_calls, sent, invoked,
                   outcomes, inflight, ntexts, ncalls>>

\* StreamRaises without the break: the loop goes on to the next step
StreamRaisesNoBreak(e) ==
    /\ pc = "stream"
    /\ streamed' = Append(streamed, [step |-> step, kind |-> "raise", error |-> e])
    /\ Emit(<<ErrorEvent(e)>>)
    /\ step' = step + 1
    /\ pc' = "loop"
    /\ UNCHANGED <<argVars, current_message, stepVars, sent, invoked,
                   outcomes, inflight, ntexts, ncalls>>

\* StreamRaises returning from the generator instead of breaking out of the
\* loop
StreamRaisesReturns(e) ==
    /\ pc = "stream"
    /\ streamed' = Append(streamed, [step |-> step, kind |-> "raise", error |-> e])
    /\ Emit(<<ErrorEvent(e)>>)
    /\ pc' = "terminated"
    /\ UNCHANGED <<argVars, current_message, step, stepVars, sent, invoked,
                   outcomes, inflight, ntexts, ncalls>>

\* fetching the next chunk of the response, or reading it (chunk.text), raises
\* inside the try: except Exception -> yield error; break
StreamRaises(e) ==
    /\ pc = "stream"
    /\ streamed' = Append(streamed, [step |-> step, kind |-> "raise", error |-> e])
    /\ BreakAndYieldDone(<<ErrorEvent(e)>>)
    /\ UNCHANGED <<argVars, current_message, step, stepVars, sent, invoked,
                   outcomes, inflight, ntexts, ncalls>>

\* StreamEnd breaking out of the loop in the last step instead of running
\* tool calls whose results no request would submit
StreamEndSkipsLastStepTools ==
    /\ pc = "stream"
    /\ streamed' = Append(streamed, [step |-> step, kind |-> "end"])
    /\ IF tool_calls = <<>> \/ step + 1 >= max_steps
          THEN /\ BreakAndYieldDone(<<>>)
               /\ UNCHANGED <<tool_response_parts, tc>>
          ELSE IF execute_tool
                  THEN /\ tool_response_parts' = <<>>
                       /\ tc' = 1
                       /\ pc' = "tools"
                       /\ UNCHANGED <<events, event_step>>
                  ELSE /\ BreakAndYieldDone(<<>>)
                       /\ UNCHANGED <<tool_response_parts, tc>>
    /\ UNCHANGED <<argVars, current_message, step, tool_calls, sent,
                   invoked, outcomes, inflight, ntexts, ncalls>>

\* StreamEnd without the test of execute_tool
StreamEndIgnoresMissingExecutor ==
    /\ pc = "stream"
    /\ streamed' = Append(streamed, [step |-> step, kind |-> "end"])
    /\ IF tool_calls = <<>>
          THEN /\ BreakAndYieldDone(<<>>)
               /\ UNCHANGED <<tool_response_parts, tc>>
          ELSE /\ tool_response_parts' = <<>>
               /\ tc' = 1
               /\ pc' = "tools"
               /\ UNCHANGED <<events, event_step>>
    /\ UNCHANGED <<argVars, current_message, step, tool_calls, sent,
                   invoked, outcomes, inflight, ntexts, ncalls>>

\* StreamEnd without the break on an empty tool_calls
StreamEndNoBreak ==
    /\ pc = "stream"
    /\ streamed' = Append(streamed, [step |-> step, kind |-> "end"])
    /\ IF execute_tool
          THEN /\ tool_response_parts' = <<>>
               /\ tc' = 1
               /\ pc' = "tools"
               /\ UNCHANGED <<events, event_step>>
          ELSE /\ BreakAndYieldDone(<<>>)
               /\ UNCHANGED <<tool_response_parts, tc>>
    /\ UNCHANGED <<argVars, current_message, step, tool_calls, sent,
                   invoked, outcomes, inflight, ntexts, ncalls>>

\* the stream ends: if not tool_calls: break / if execute_tool: ... else: break
StreamEnd ==
    /\ pc = "stream"
    /\ streamed' = Append(streamed, [step |-> step, kind |-> "end"])
    /\ IF tool_calls = <<>>
          THEN /\ BreakAndYieldDone(<<>>)
               /\ UNCHANGED <<tool_response_parts, tc>>
          ELSE IF execute_tool
                  THEN /\ tool_response_parts' = <<>>
                       /\ tc' = 1
                       /\ pc' = "tools"
                       /\ UNCHANGED <<events, event_step>>
                  ELSE /\ BreakAndYieldDone(<<>>)
                       /\ UNCHANGED <<tool_response_parts, tc>>
    /\ UNCHANGED <<argVars, current_message, step, tool_calls, sent,
                   invoked, outcomes, inflight, ntexts, ncalls>>

\* InvokeTool starting the call without awaiting it
InvokeToolNoAwait ==
    /\ pc = "tools"
    /\ tc <= Len(tool_calls)
    /\ invoked' = Append(invoked, [step |-> step, name |-> tool_calls[tc].name,
                                   args |-> tool_calls[tc].args])
    /\ inflight' = inflight \cup {Len(invoked) + 1}
    /\ tc' = tc + 1
    /\ UNCHANGED <<pc, argVars, current_message, step, tool_calls,
                   tool_response_parts, events, event_step, sent, streamed,
                   outcomes, ntexts, ncalls>>

\* for tc in tool_calls: result = await execute_tool(tc["name"], tc["args"])
InvokeTool ==
    /\ pc = "tools"
    /\ tc <= Len(tool_calls)
    /\ invoked' = Append(invoked, [step |-> step, name |-> tool_calls[tc].name,
                                   args |-> tool_calls[tc].args])
    /\ inflight' = inflight \cup {Len(invoked) + 1}
    /\ pc' = "await"
    /\ UNCHANGED <<argVars, current_message, step, stepVars, events,
                   event_step, sent, streamed, outcomes, ntexts, ncalls>>

\* the callback returns: log the result, yield tool_result, then build the
\* function response; when json.dumps raises on the result, the except branch
\* of the same try yields the tool_result of the error instead; when
\* Struct.update raises on it, the except branch yields a second tool_result
\* and builds the part from the error
ToolReturns(result) ==
    /\ pc = "await"
    /\ outcomes' = Append(outcomes, [returned |-> TRUE, result |-> result])
    /\ inflight' = inflight \ {Len(invoked)}
    /\ LET name == tool_calls[tc].name IN
          IF ~result.loggable
             THEN /\ Emit(<<ToolResultEvent(name, ErrorResult(LoggingException))>>)
                  /\ tool_response_parts' =
                        Append(tool_response_parts,
                               Part_from_function_response(
                                   name, ErrorResult(LoggingException)))
          ELSE IF ~result.convertible
             THEN /\ Emit(<<ToolResultEvent(name, result),
                            ToolResultEvent(name, ErrorResult(ConversionException))>>)
                  /\ tool_response_parts' =
                        Append(tool_response_parts,
                               Part_from_function_response(
                                   name, ErrorResult(ConversionException)))
             ELSE /\ Emit(<<ToolResultEvent(name, result)>>)
                  /\ tool_response_parts' =
                        Append(tool_response_parts,
                               Part_from_function_response(name, StructOf(result)))
    /\ tc' = tc + 1
    /\ pc' = "tools"
    /\ UNCHANGED <<argVars, current_message, step, tool_calls,
                   sent, streamed, invoked, ntexts, ncalls>>

\* ToolRaises without the inner try: the outer except handles the failure
ToolRaisesPropagates(e) ==
    /\ pc = "await"
    /\ outcomes' = Append(outcomes, [returned |-> FALSE, error |-> e])
    /\ inflight' = inflight \ {Len(invoked)}
    /\ BreakAndYieldDone(<<ErrorEvent(e)>>)
    /\ UNCHANGED <<argVars, current_message, step, stepVars, sent, streamed,
                   invoked, ntexts, ncalls>>

\* the callback raises: except Exception -> yield tool_result with the error
ToolRaises(e) ==
    /\ pc = "await"
    /\ outcomes' = Append(outcomes, [returned |-> FALSE, error |-> e])
    /\ inflight' = inflight \ {Len(invoked)}
    /\ LET name == tool_calls[tc].name IN
          /\ Emit(<<ToolResultEvent(name, ErrorResult(e))>>)
          /\ tool_response_parts' =
                Append(tool_response_parts,
                       Part_from_function_response(name, ErrorResult(e)))
    /\ tc' = tc + 1
    /\ pc' = "tools"
    /\ UNCHANGED <<argVars, current_message, step, tool_calls,
                   sent, streamed, invoked, ntexts, ncalls>>

\* after the for: current_message = Content(role="function", parts=...)
ToolsDone ==
    /\ pc = "tools"
    /\ tc > Len(tool_calls)
    /\ current_message' = Content("function", tool_response_parts)
    /\ step' = step + 1
    /\ pc' = "loop"
    /\ UNCHANGED <<argVars, stepVars, events, event_step, envVars>>

\* the chunks the model client can stream next: any text, and zero or more
\* of the function calls it has not requested yet
Chunks ==
    { [text |-> t, function_calls |-> [i \in 1..n |-> FunctionCall(ncalls + i)]] :
        t \in Texts, n \in 0..(MaxStreamed - ntexts - ncalls) }

\* the steps of stream_chat; they leave the inference pipeline alone
Next ==
    \/ StreamChatCall /\ UNCHANGED outsideStreamChat
    \/ SendMessage /\ UNCHANGED outsideStreamChat
    \/ (\E e \in ModelExceptions : SendMessageRaises(e)) /\ UNCHANGED outsideStreamChat
    \/ LoopExit /\ UNCHANGED outsideStreamChat
    \/ (\E c \in Chunks : NextChunk(c)) /\ UNCHANGED outsideStreamChat
    \/ (\E e \in ModelExceptions : StreamRaises(e)) /\ UNCHANGED outsideStreamChat
    \/ StreamEnd /\ UNCHANGED outsideStreamChat
    \/ InvokeTool /\ UNCHANGED outsideStreamChat
    \/ (\E r \in ToolResults : ToolReturns(r)) /\ UNCHANGED outsideStreamChat
    \/ (\E e \in ToolExceptions : ToolRaises(e)) /\ UNCHANGED outsideStreamChat
    \/ ToolsDone /\ UNCHANGED outsideStreamChat

Spec == Init /\ [][Next]_allVars

\* ------------------------------------------------- operators on the history
EventsOfType(t) == {i \in DOMAIN events : events[i].type = t}

StepEvents(t, s) == {i \in EventsOfType(t) : event_step[i] = s}

Raises == {i \in DOMAIN streamed : streamed[i].kind = "raise"}

Ends == {i \in DOMAIN streamed : streamed[i].kind = "end"}

\* the function calls the model client streamed in step s, in order
StreamedCalls(s) ==
    LET items == SelectSeq(streamed,
                           LAMBDA x : x.kind = "function_call" /\ x.step = s)
    IN  [j \in 1..Len(items) |-> items[j].fc]

\* the calls of execute_tool made in step s, in order
InvokedIn(s) == SelectSeq(invoked, LAMBDA c : c.step = s)

Last(seq) == seq[Len(seq)]

\* ------------------------------------------------------------------ claims

AlwaysToolCalls ==
    /\ Raises = {}
    /\ \A i \in Ends : StreamedCalls(streamed[i].step) # <<>>

AlwaysSucceeds ==
    \A i \in DOMAIN outcomes : outcomes[i].returned /\ outcomes[i].result.convertible

C2_AtMostMaxStepsRounds ==
    /\ Len(sent) <= max_steps
    /\ \A i \in DOMAIN sent : sent[i].step = i - 1
    /\ \A i \in EventsOfType("tool_call") \cup EventsOfType("tool_result") :
          event_step[i] < max_steps
    /\ (pc = "terminated" /\ execute_tool /\ AlwaysToolCalls /\ AlwaysSucceeds)
          => /\ Len(sent) = max_steps
             /\ Last(events) = DoneEvent
             /\ EventsOfType("error") = {}

C2_Witness ==
    /\ pc = "terminated"
    /\ execute_tool
    /\ AlwaysToolCalls
    /\ AlwaysSucceeds
    /\ max_steps = 2
    /\ Len(sent) = 2
    /\ StepEvents("tool_result", 1) # {}

\* C3: a failure of the tool executor never produces an 'error' event: every
\* 'error' event comes from the model client.  When every call of the
\* executor fails, the tool_result events are the {error: text} results of
\* the calls, in order, these results are the next message, and without a
\* failure of the model client the stream ends with 'done' and no 'error'.
AlwaysFails == \A i \in DOMAIN outcomes : ~outcomes[i].returned

ToolResultEvents == SelectSeq(events, LAMBDA ev : ev.type = "tool_result")

C3_ToolFailureIsNoError ==
    /\ Cardinality(EventsOfType("error")) = Cardinality(Raises)
    /\ AlwaysFails =>
          /\ Len(ToolResultEvents) = Len(outcomes)
          /\ \A i \in DOMAIN outcomes :
                ToolResultEvents[i] =
                    ToolResultEvent(invoked[i].name, ErrorResult(outcomes[i].error))
          /\ \A k \in DOMAIN sent :
                k > 1 =>
                   sent[k].message =
                      Content("function",
                              [j \in 1..Len(InvokedIn(k - 2)) |->
                                  Part_from_function_response(
                                      InvokedIn(k - 2)[j].name,
                                      ErrorResult("tool failed"))])
    /\ (AlwaysFails /\ Raises = {} /\ pc = "terminated") =>
          /\ EventsOfType("error") = {}
          /\ Last(events) = DoneEvent

C3_Witness ==
    /\ pc = "terminated"
    /\ AlwaysFails
    /\ Len(outcomes) = 2
    /\ Len(sent) = 2
    /\ Raises = {}
    /\ EventsOfType("error") = {}

\* C4: without a tool executor no tool is executed and no tool_result event
\* is emitted; when the response of a step ends with tool calls requested,
\* their tool_call events have been emitted, no further model request is
\* made, and the only event that follows is 'done'.
C4_NoExecutorTerminates ==
    ~execute_tool =>
        /\ EventsOfType("tool_result") = {}
        /\ invoked = <<>>
        /\ Len(sent) <= 1
        /\ \A i \in Ends :
              StreamedCalls(0) # <<>> =>
                 /\ i = Len(streamed)
                 /\ pc = "terminated"
                 /\ Len(StreamedCalls(0)) = Cardinality(EventsOfType("tool_call"))
                 /\ \A j \in DOMAIN events :
                       \/ events[j].type \in {"text", "tool_call"}
                       \/ pc = "terminated" /\ j = Len(events) /\ events[j] = DoneEvent

C4_Witness ==
    /\ ~execute_tool
    /\ pc = "terminated"
    /\ max_steps = 2
    /\ Ends # {}
    /\ Len(StreamedCalls(0)) = 2

\* C5: when the model client raises in a step, an 'error' event with the
\* error's description is emitted in that step and only 'done' follows it;
\* nothing more is streamed, no model request is made after the failed step
\* and no tool is executed in it or after it.
C5_ModelErrorEndsLoop ==
    \A i \in Raises :
        /\ i = Len(streamed)
        /\ pc = "terminated"
        /\ inflight = {}
        /\ Len(sent) = streamed[i].step + 1
        /\ \A k \in DOMAIN invoked : invoked[k].step < streamed[i].step
        /\ \E j \in EventsOfType("error") :
              /\ events[j].content = streamed[i].error
              /\ event_step[j] = streamed[i].step
              /\ \A m \in DOMAIN events : m > j => events[m] = DoneEvent

C5_Witness ==
    /\ pc = "terminated"
    /\ Raises # {}
    /\ max_steps = 2
    /\ Len(sent) = 2
    /\ StepEvents("tool_call", 1) # {}
    /\ Len(invoked) = 1

\* C6: a step whose completed response requested no tool call is the last
\* step: nothing more is streamed, no later model request is made and the
\* tool executor is not invoked in it or after it, whatever is left of the
\* max_steps budget.
C6_NoToolCallsIsLastStep ==
    \A i \in Ends :
        StreamedCalls(streamed[i].step) = <<>> =>
            /\ i = Len(streamed)
            /\ pc = "terminated"
            /\ Len(sent) = streamed[i].step + 1
            /\ \A k \in DOMAIN invoked : invoked[k].step < streamed[i].step

C6_Witness ==
    /\ pc = "terminated"
    /\ execute_tool
    /\ max_steps = 2
    /\ Len(sent) = 1
    /\ Ends # {}
    /\ EventsOfType("text") # {}
    /\ EventsOfType("tool_call") = {}

\* C7: the tool executor is invoked once per collected tool call, in the
\* order the calls were received, with at most one call in flight; while a
\* call is in flight the latest model request is that of the call's step,
\* and once a later step has been requested every tool call of the earlier
\* step has been executed to completion.
InvocationOf(s, fc) ==
    [step |-> s, name |-> ToolCallOf(fc).name, args |-> ToolCallOf(fc).args]

C8_OneResultPerToolCall ==
    /\ Len(ToolResultEvents) = Len(outcomes)
    /\ \A i \in DOMAIN outcomes :
          ToolResultEvents[i] =
              ToolResultEvent(invoked[i].name,
                              IF outcomes[i].returned
                                  THEN outcomes[i].result
                                  ELSE ErrorResult(outcomes[i].error))
    /\ pc = "tools" =>
          /\ Len(tool_response_parts) = tc - 1
          /\ \A j \in DOMAIN tool_response_parts :
                LET o == outcomes[Len(outcomes) - (tc - 1) + j] IN
                tool_response_parts[j] =
                    Part_from_function_response(
                        tool_calls[j].name,
                        IF o.returned THEN StructOf(o.result)
                                      ELSE ErrorResult(o.error))

\* C9: the first model request submits the content of the last message of
\* the conversation; the request of every later step submits a function-role
\* Content holding one response per tool call of the step before, in the
\* order of the calls, each a result reported for that call in that step.
C9_CurrentMessage ==
    /\ sent # <<>> =>
          sent[1].message =
              IF messages = <<>> THEN TextMessage(<<>>)
                                 ELSE TextMessage(Last(messages).content)
    /\ \A k \in DOMAIN sent :
          k > 1 =>
             LET m == sent[k].message
                 calls == StreamedCalls(k - 2)
             IN  /\ m.role = "function"
                 /\ Len(m.parts) = Len(calls)
                 /\ \A j \in DOMAIN calls :
                       /\ m.parts[j].function_response.name = calls[j].name
                       /\ \E e \in StepEvents("tool_result", k - 2) :
                             /\ events[e].name = calls[j].name
                             /\ StructOf(events[e].result) =
                                   m.parts[j].function_response.response

C9_Witness ==
    /\ Len(messages) = 2
    /\ Len(sent) = 2
    /\ Len(sent[2].message.parts) = 2

\* C10: the text and tool_call events are the non-empty text fragments and
\* the function calls the model client streamed, in the order it streamed
\* them, all those of a chunk emitted before the next chunk is consumed;
\* within a step no text or tool_call event follows a tool_result event.
StreamedEvents ==
    LET items == SelectSeq(streamed,
                           LAMBDA x : x.kind \in {"text", "function_call"})
    IN  [j \in 1..Len(items) |->
            IF items[j].kind = "text"
                THEN TextEvent(items[j].text)
                ELSE ToolCallEvent(ToolCallOf(items[j].fc))]

ModelEvents == SelectSeq(events, LAMBDA ev : ev.type \in {"text", "tool_call"})

C10_StreamOrderPreserved ==
    /\ ModelEvents = StreamedEvents
    /\ \A i \in EventsOfType("tool_result") :
          \A j \in EventsOfType("text") \cup EventsOfType("tool_call") :
             i < j => event_step[i] < event_step[j]

C10_Witness ==
    /\ ntexts = 2
    /\ Len(StreamedCalls(0)) = 1
    /\ Cardinality(EventsOfType("text")) = 2
    /\ StepEvents("tool_result", 0) # {}
    /\ events[1].type = "text"
    /\ events[2].type = "tool_call"
    /\ events[3].type = "text"

\* C22: the content of a system-role message of the conversation is never
\* submitted to the model as a conversation turn: it is in no Content of the
\* history and it is not the message of the first request.
SystemContents ==
    {messages[i].content : i \in {j \in DOMAIN messages : messages[j].role = "system"}}

C22_SystemNeverSubmitted ==
    /\ \A i \in DOMAIN history :
          \A j \in DOMAIN history[i].parts :
             history[i].parts[j].text \notin SystemContents
    /\ \A k \in DOMAIN sent :
          sent[k].step = 0 => sent[k].message.text \notin SystemContents

\* C26: the tool executor is invoked in a step only after the response of
\* that step has ended without an error: no call of the step exists while the
\* response is still streamed, and when the response raises after tool calls
\* were streamed (their tool_call events emitted), none of them is executed
\* and no tool_result event is emitted in that step.
C26_ToolsOnlyAfterStreamCompleted ==
    /\ pc = "stream" =>
          InvokedIn(step) = <<>> /\ StepEvents("tool_result", step) = {}
    /\ \A k \in DOMAIN invoked :
          \E i \in Ends : streamed[i].step = invoked[k].step
    /\ \A i \in EventsOfType("tool_result") :
          \E j \in Ends : streamed[j].step = event_step[i]
    /\ \A i \in Raises :
          /\ InvokedIn(streamed[i].step) = <<>>
          /\ StepEvents("tool_result", streamed[i].step) = {}
          /\ Cardinality(StepEvents("tool_call", streamed[i].step))
                = Len(StreamedCalls(streamed[i].step))

C26_Witness ==
    /\ pc = "terminated"
    /\ execute_tool
    /\ \E i \in Raises :
          /\ streamed[i].step = 1
          /\ Len(StreamedCalls(1)) = 2
          /\ Cardinality(StepEvents("tool_call", 1)) = 2
    /\ Len(InvokedIn(0)) = 1

\* C27: an invocation emits at most one 'error' event, and an 'error' event
\* is followed by exactly one event, 'done'.
C27_OneErrorThenDone ==
    /\ Cardinality(EventsOfType("error")) <= 1
    /\ \A i \in EventsOfType("error") :
          /\ Len(events) = i + 1
          /\ events[i + 1] = DoneEvent
          /\ pc = "terminated"

C27_Witness ==
    /\ pc = "terminated"
    /\ Cardinality(EventsOfType("error")) = 1
    /\ EventsOfType("tool_result") # {}
    /\ EventsOfType("text") # {}
    /\ Len(sent) = 2

\* C28: when the response of the last permitted step (step max_steps - 1)
\* ends with tool calls requested and an executor was supplied, every one of
\* them is executed and has a tool_result event in that step; the function
\* responses built from them stay in current_message and are in no request:
\* the number of requests is max_steps and never more, and request k > 1
\* holds the responses of step k - 2; the stream ends with 'done' and holds
\* no 'error' event.
LastStepRequestedTools ==
    /\ max_steps > 0
    /\ execute_tool
    /\ StreamedCalls(max_steps - 1) # <<>>
    /\ \E i \in Ends : streamed[i].step = max_steps - 1

C28_LastStepToolsRunUnsubmitted ==
    /\ Len(sent) <= max_steps
    /\ (pc = "terminated" /\ LastStepRequestedTools) =>
          LET s == max_steps - 1
              requested == StreamedCalls(s)
          IN  /\ Len(InvokedIn(s)) = Len(requested)
              /\ \A j \in DOMAIN requested :
                    /\ InvokedIn(s)[j] = InvocationOf(s, requested[j])
                    /\ \E e \in StepEvents("tool_result", s) :
                          events[e].name = requested[j].name
              /\ inflight = {}
              /\ Len(outcomes) = Len(invoked)
              /\ Len(sent) = max_steps
              /\ current_message = Content("function", tool_response_parts)
              /\ Len(tool_response_parts) = Len(requested)
              /\ \A k \in DOMAIN sent :
                    /\ sent[k].step = k - 1
                    /\ k > 1 =>
                          /\ Len(sent[k].message.parts) = Len(StreamedCalls(k - 2))
                          /\ \A j \in DOMAIN sent[k].message.parts :
                                sent[k].message.parts[j].function_response.name
                                    = StreamedCalls(k - 2)[j].name
              /\ Last(events) = DoneEvent
              /\ EventsOfType("error") = {}

C28_Witness ==
    /\ pc = "terminated"
    /\ LastStepRequestedTools
    /\ max_steps = 2
    /\ Len(InvokedIn(1)) = 2
    /\ Cardinality(StepEvents("tool_result", 1)) >= 2

\* ===================================================== inference pipeline
\* -------------------------------------------------------------------- text
\* the characters str.strip removes
Whitespace == {" ", "\n", "\t"}

\* str.lower on one character
LowerChar(c) ==
    CASE c = "T" -> "t"
      [] c = "A" -> "a"
      [] c = "S" -> "s"
      [] c = "K" -> "k"
      [] c = "N" -> "n"
      [] OTHER -> c

lower(s) == [i \in 1..Len(s) |-> LowerChar(s[i])]

\* str.strip: drop the leading and the trailing whitespace
strip(s) ==
    LET kept == {i \in 1..Len(s) : s[i] \notin Whitespace}
    IN  IF kept = {}
            THEN <<>>
            ELSE SubSeq(s, CHOOSE i \in kept : \A j \in kept : i <= j,
                           CHOOSE i \in kept : \A j \in kept : i >= j)

\* sub in s
Contains(sub, s) ==
    \E i \in 1..(Len(s) - Len(sub) + 1) : SubSeq(s, i, i + Len(sub) - 1) = sub

\* s[:n]
Prefix(s, n) == SubSeq(s, 1, IF Len(s) < n THEN Len(s) ELSE n)

\* ----------------------------------------------------------- input domains
MessageSource == {"slack", "gmail"}

\* the lengths of the message contents: empty, and around the two limits
ContentLens ==
    {0} \cup {ClassifyPrefix + d : d \in (0 - MaxExtra)..MaxExtra}
        \cup {StoredPrefix + d : d \in (0 - MaxExtra)..MaxExtra}

ContentChars == <<"d", "u", "e", " ", "b", "y", ".">>

\* a message content of n characters
ContentOf(n) == [i \in 1..n |-> ContentChars[(i % 7) + 1]]

\* the MessageContext values infer_task_from_message is called with: a Slack
\* message in a channel, a Slack direct message, an email
MessageContext(kind, n) ==
    [source       |-> IF kind = "email" THEN "gmail" ELSE "slack",
     content      |-> ContentOf(n),
     sender       |-> "U024BE7LH",
     timestamp    |-> "1704276000.000200",
     channel      |-> IF kind = "channel" THEN Some("C024BE91L") ELSE None,
     channel_type |-> IF kind = "channel" THEN Some("channel")
                      ELSE IF kind = "dm" THEN Some("im") ELSE None,
     thread_id    |-> IF kind = "channel" THEN Some("1704275000.000100") ELSE None,
     subject      |-> IF kind = "email" THEN Some("Quarterly report") ELSE None,
     message_id   |-> IF kind = "email" THEN Some("18cd3a") ELSE None,
     is_reply     |-> IF kind = "email" THEN Some(FALSE) ELSE None]

Contexts == { MessageContext(kind, n) : kind \in {"channel", "dm", "email"},
                                        n \in ContentLens }

\* confidence_threshold values, in hundredths
Thresholds == {DefaultThreshold, MaxConfidence}

\* the texts gemini_service.generate_text returns
Responses ==
    { <<>>,
      <<" ", "\n">>,
      <<"t", "a", "s", "k">>,
      <<"c", "h", "a", "t">>,
      <<" ", "N", "o", "t", " ", "a", " ", "T", "a", "s", "k", "\n">>,
      <<"t", "a", "s", " ", "k">> }

\* the exceptions the model client raises
GenerateExceptions == {"provider error"}

Priority == {"low", "medium", "high"}

\* TaskDetails values the model client returns
TaskDetails ==
    { [title |-> "Send the report", description |-> Some("to Dana, by Friday EOD"),
       due_date |-> Some("2024-01-05"), priority |-> "high",
       reasoning |-> "direct request with a deadline"],
      [title |-> "Follow up", description |-> None, due_date |-> None,
       priority |-> "low", reasoning |-> "suggestion"] }

\* confidence values of the JSON the model client returns, in hundredths: the
\* last one violates le=1.00
JsonConfidences ==
    {MinConfidence, DefaultThreshold - 1, DefaultThreshold, MaxConfidence,
     MaxConfidence + 1}

\* response.text of the structured-generation call: JSON that parses into the
\* fields of TaskExtraction, or text that does not
JsonResponses ==
    { [wellformed |-> TRUE, is_task |-> b, confidence |-> c, task |-> t] :
        b \in BOOLEAN, c \in JsonConfidences,
        t \in {None} \cup {Some(d) : d \in TaskDetails} }
    \cup { [wellformed |-> FALSE, is_task |-> FALSE, confidence |-> MinConfidence,
            task |-> None] }

\* uuid.uuid4().hex[:8]: eight hexadecimal digits, whatever uuid4 draws
ProposalIds == {"3f2a9c1e", "b07d55e4"}

\* datetime.now().isoformat()
Timestamps == {"2024-01-03T10:15:00"}

\* ------------------------------------------------------------ the functions
\* the prompt of classify_message: the instructions around content[:500]
ClassificationPromptUntruncated(content) ==
    [instruction |-> "classify: task or chat", message |-> content]

ClassificationPrompt(content) ==
    [instruction |-> "classify: task or chat",
     message |-> Prefix(content, ClassifyPrefix)]

\* the user prompt of extract_task_details, with the full content
UserPrompt(c) ==
    [source_type |-> IF c.source = "slack" THEN "Slack message" ELSE "email",
     source      |-> c.source,
     source_info |-> IF c.source = "slack"
                        THEN <<"CHANNEL", IF c.channel # None THEN c.channel[1] ELSE "DM">>
                        ELSE <<"SUBJECT", IF c.subject # None THEN c.subject[1]
                                                             ELSE "(no subject)">>,
     sender      |-> c.sender,
     timestamp   |-> c.timestamp,
     content     |-> c.content]

Task == <<"t", "a", "s", "k">>

\* classify_message matching the whole normalized text instead of a substring
classify_message_exact(outcome) ==
    IF outcome.raised
        THEN "task"
        ELSE LET raw_result == IF outcome.text # <<>>
                                   THEN lower(strip(outcome.text))
                                   ELSE <<>>
             IN  IF raw_result = <<>>
                    THEN "task"
                    ELSE IF raw_result = Task THEN "task" ELSE "chat"

\* what classify_message returns, given what generate_text did
classify_message(outcome) ==
    IF outcome.raised
        THEN "task"
        ELSE LET raw_result == IF outcome.text # <<>>
                                   THEN lower(strip(outcome.text))
                                   ELSE <<>>
             IN  IF raw_result = <<>>
                    THEN "task"
                    ELSE IF Contains(Task, raw_result) THEN "task" ELSE "chat"

TaskExtraction(is_task, confidence, task) ==
    [is_task |-> is_task, confidence |-> confidence, task |-> task]

\* TaskExtraction.model_validate_json(response.text) succeeds
Validates(json) ==
    /\ json.wellformed
    /\ json.confidence >= MinConfidence
    /\ json.confidence <= MaxConfidence

\* generate_structured_async returning the fields without validating them
generate_structured_async_unvalidated(response) ==
    IF response.raised
        THEN [raised |-> TRUE, error |-> response.error]
        ELSE [raised |-> FALSE,
              value |-> TaskExtraction(response.json.is_task,
                                       response.json.confidence,
                                       response.json.task)]

\* gemini_service.generate_structured_async, given what the model client did:
\* it raises what the client raised, raises when validation fails, and
\* returns the validated TaskExtraction otherwise
generate_structured_async(response) ==
    IF response.raised
        THEN [raised |-> TRUE, error |-> response.error]
        ELSE IF ~Validates(response.json)
            THEN [raised |-> TRUE, error |-> "ValidationError"]
            ELSE [raised |-> FALSE,
                  value |-> TaskExtraction(response.json.is_task,
                                           response.json.confidence,
                                           response.json.task)]

\* TaskExtraction(is_task=False, confidence=0.0, task=None)
FailClosedExtraction == TaskExtraction(FALSE, MinConfidence, None)

\* extract_task_details failing open, as stage 1 does
extract_task_details_fail_open(r) ==
    IF r.raised THEN TaskExtraction(TRUE, MaxConfidence, None) ELSE r.value

\* what extract_task_details returns, given what generate_structured_async did
extract_task_details(r) ==
    IF r.raised THEN FailClosedExtraction ELSE r.value

\* the first gate without the test of the confidence
RejectedIgnoringConfidence(ex, threshold) == ~ex.is_task

\* if not extraction.is_task or extraction.confidence < confidence_threshold
Rejected(ex, threshold) == ~ex.is_task \/ ex.confidence < threshold

SourceContext(c) ==
    [channel          |-> c.channel,
     subject          |-> c.subject,
     sender           |-> c.sender,
     timestamp        |-> c.timestamp,
     original_content |-> Prefix(c.content, StoredPrefix),
     message_id       |-> c.message_id,
     thread_id        |-> c.thread_id]

\* TaskProposal built without the description of the extracted task
TaskProposalNoDescription(id, ex, c, now) ==
    [proposal_id    |-> id,
     type           |-> "task_proposal",
     title          |-> ex.task[1].title,
     description    |-> None,
     due_date       |-> ex.task[1].due_date,
     priority       |-> ex.task[1].priority,
     source         |-> c.source,
     source_context |-> SourceContext(c),
     confidence     |-> ex.confidence,
     reasoning      |-> ex.task[1].reasoning,
     created_at     |-> now]

\* proposal = TaskProposal(...)
TaskProposal(id, ex, c, now) ==
    [proposal_id    |-> id,
     type           |-> "task_proposal",
     title          |-> ex.task[1].title,
     description    |-> ex.task[1].description,
     due_date       |-> ex.task[1].due_date,
     priority       |-> ex.task[1].priority,
     source         |-> c.source,
     source_context |-> SourceContext(c),
     confidence     |-> ex.confidence,
     reasoning      |-> ex.task[1].reasoning,
     created_at     |-> now]

\* ----------------------------------------------------------------- actions
\* infer_task_from_message(context, confidence_threshold) is called: it calls
\* classify_message(context.content), which builds the prompt and awaits
\* generate_text
InferCall(c, threshold) ==
    /\ ipc = "idle"
    /\ Len(created) < MaxProposals
    /\ context' = Some(c)
    /\ confidence_threshold' = threshold
    /\ prompt' = Some(ClassificationPrompt(c.content))
    /\ model_calls' = <<"generate_text">>
    /\ generated' = None
    /\ classification' = None
    /\ user_prompt' = None
    /\ structured' = None
    /\ extraction' = None
    /\ proposal' = None
    /\ ipc' = "classify"
    /\ UNCHANGED created

\* classify_message returns cl: if classification == "chat": return None;
\* otherwise extract_task_details builds its prompts and awaits
\* generate_structured_async
Classified(outcome, cl) ==
    /\ generated' = Some(outcome)
    /\ classification' = Some(cl)
    /\ IF cl = "chat"
          THEN /\ proposal' = None
               /\ ipc' = "returned"
               /\ UNCHANGED <<user_prompt, model_calls>>
          ELSE /\ user_prompt' = Some(UserPrompt(context[1]))
               /\ model_calls' = Append(model_calls, "generate_structured_async")
               /\ ipc' = "extract"
               /\ UNCHANGED proposal
    /\ UNCHANGED <<context, confidence_threshold, prompt, structured,
                   extraction, created>>

\* GenerateTextReturns going on to the extraction whatever the classification
GenerateTextReturnsAlwaysExtracts(text) ==
    /\ ipc = "classify"
    /\ generated' = Some([raised |-> FALSE, text |-> text])
    /\ classification' =
          Some(classify_message([raised |-> FALSE, text |-> text]))
    /\ user_prompt' = Some(UserPrompt(context[1]))
    /\ model_calls' = Append(model_calls, "generate_structured_async")
    /\ ipc' = "extract"
    /\ UNCHANGED <<context, confidence_threshold, prompt, structured,
                   extraction, proposal, created>>

\* generate_text returns text
GenerateTextReturns(text) ==
    /\ ipc = "classify"
    /\ LET outcome == [raised |-> FALSE, text |-> text]
       IN  Classified(outcome, classify_message(outcome))

\* GenerateTextRaises without the except: the exception reaches the caller of
\* infer_task_from_message
GenerateTextRaisesPropagates(e) ==
    /\ ipc = "classify"
    /\ generated' = Some([raised |-> TRUE, error |-> e])
    /\ ipc' = "raised"
    /\ UNCHANGED <<context, confidence_threshold, prompt, classification,
                   user_prompt, structured, extraction, proposal, model_calls,
                   created>>

\* generate_text raises: except Exception -> return "task"
GenerateTextRaises(e) ==
    /\ ipc = "classify"
    /\ LET outcome == [raised |-> TRUE, error |-> e]
       IN  Classified(outcome, classify_message(outcome))

\* extract_task_details returns ex: the two gates, then the proposal with a
\* new proposal_id and the current time
Extracted(response, ex) ==
    /\ structured' = Some(response)
    /\ extraction' = Some(ex)
    /\ IF Rejected(ex, confidence_threshold)
          THEN proposal' = None /\ UNCHANGED created
          ELSE IF ex.task = None
                  THEN proposal' = None /\ UNCHANGED created
                  ELSE \E id \in ProposalIds, now \in Timestamps :
                          /\ proposal' = Some(TaskProposal(id, ex, context[1], now))
                          /\ created' = Append(created, id)
    /\ ipc' = "returned"
    /\ UNCHANGED <<context, confidence_threshold, prompt, generated,
                   classification, user_prompt, model_calls>>

\* the model client answers the structured-generation call with response.text
GenerateStructuredReturns(json) ==
    /\ ipc = "extract"
    /\ LET response == [raised |-> FALSE, json |-> json]
       IN  Extracted(response,
                     extract_task_details(generate_structured_async(response)))

\* GenerateStructuredRaises without the except: the exception reaches the
\* caller of infer_task_from_message
GenerateStructuredRaisesPropagates(e) ==
    /\ ipc = "extract"
    /\ structured' = Some([raised |-> TRUE, error |-> e])
    /\ ipc' = "raised"
    /\ UNCHANGED <<context, confidence_threshold, prompt, generated,
                   classification, user_prompt, extraction, proposal,
                   model_calls, created>>

\* the model client raises in the structured-generation call
GenerateStructuredRaises(e) ==
    /\ ipc = "extract"
    /\ LET response == [raised |-> TRUE, error |-> e]
       IN  Extracted(response,
                     extract_task_details(generate_structured_async(response)))

\* the caller has received what infer_task_from_message returned: the call
\* is over and its arguments and locals are gone
InferReturn ==
    /\ ipc = "returned"
    /\ ipc' = "idle"
    /\ context' = None
    /\ confidence_threshold' = DefaultThreshold
    /\ prompt' = None
    /\ generated' = None
    /\ classification' = None
    /\ user_prompt' = None
    /\ structured' = None
    /\ extraction' = None
    /\ proposal' = None
    /\ model_calls' = <<>>
    /\ UNCHANGED created

\* the steps of the inference pipeline; they leave stream_chat alone
InferNext ==
    \/ (\E c \in Contexts, t \in Thresholds : InferCall(c, t)) /\ UNCHANGED outsideInference
    \/ (\E text \in Responses : GenerateTextReturns(text)) /\ UNCHANGED outsideInference
    \/ (\E e \in GenerateExceptions : GenerateTextRaises(e)) /\ UNCHANGED outsideInference
    \/ (\E json \in JsonResponses : GenerateStructuredReturns(json)) /\ UNCHANGED outsideInference
    \/ (\E e \in GenerateExceptions : GenerateStructuredRaises(e)) /\ UNCHANGED outsideInference
    \/ InferReturn /\ UNCHANGED outsideInference

InferSpec == Init /\ [][InferNext]_allVars

\* ------------------------------------------- operators on the pipeline state
\* the extraction call succeeded: the model client returned text that
\* TaskExtraction.model_validate_json accepts
ExtractionSucceeded ==
    /\ structured # None
    /\ ~structured[1].raised
    /\ structured[1].json.wellformed
    /\ structured[1].json.confidence \in MinConfidence..MaxConfidence

ExtractionFailed == structured # None /\ ~ExtractionSucceeded

\* the text generate_text returned, if it returned one
ReturnedText(text) ==
    generated # None /\ ~generated[1].raised /\ generated[1].text = text

IsBlank(text) == \A i \in DOMAIN text : text[i] \in Whitespace

\* ------------------------------------------------------------------ claims

\* C11: classify_message never raises and returns 'task' or 'chat' whatever
\* generate_text does; when generate_text raises or returns empty or
\* whitespace-only text it returns 'task'.
C11_ClassifyFailsOpen ==
    /\ ipc # "raised"
    /\ generated # None <=> classification # None
    /\ ipc \in {"extract", "returned"} => classification # None
    /\ classification # None => classification[1] \in {"task", "chat"}
    /\ (generated # None /\ (generated[1].raised \/ IsBlank(generated[1].text)))
          => classification = Some("task")

C11_Witness ==
    /\ generated # None
    /\ generated[1].raised
    /\ classification = Some("task")
    /\ ipc = "extract"

\* C12 as stated: whenever generate_text returns non-empty text, the result
\* is 'task' iff the trimmed, lower-cased text contains 'task'.
C12_NonEmptyTextMatched ==
    (generated # None /\ ~generated[1].raised /\ generated[1].text # <<>>) =>
        (classification = Some("task")
            <=> Contains(Task, lower(strip(generated[1].text))))

\* C12 amended: whenever generate_text returns text that is not empty after
\* trimming, the result is 'task' iff the trimmed, lower-cased text contains
\* 'task', and 'chat' otherwise.
C12_NonBlankTextMatched ==
    (generated # None /\ ~generated[1].raised /\ ~IsBlank(generated[1].text)) =>
        /\ Contains(Task, lower(strip(generated[1].text)))
              => classification = Some("task")
        /\ ~Contains(Task, lower(strip(generated[1].text)))
              => classification = Some("chat")

C12_Witness ==
    /\ ReturnedText(<<" ", "N", "o", "t", " ", "a", " ", "T", "a", "s", "k", "\n">>)
    /\ classification = Some("task")

\* C13: extract_task_details never raises and returns a well-formed
\* TaskExtraction; when the structured-generation call fails (the model
\* client raises, or its text fails validation) the result is exactly
\* is_task = false, confidence = 0, task = None.
C13_ExtractFailsClosed ==
    /\ ipc # "raised"
    /\ structured # None <=> extraction # None
    /\ ipc = "returned" /\ classification = Some("task") => extraction # None
    /\ extraction # None =>
          /\ extraction[1].is_task \in BOOLEAN
          /\ extraction[1].confidence \in MinConfidence..MaxConfidence
          /\ extraction[1].task \in {None} \cup {Some(d) : d \in TaskDetails}
    /\ ExtractionFailed =>
          extraction = Some([is_task |-> FALSE, confidence |-> 0, task |-> None])

C13_Witness ==
    /\ structured # None
    /\ ~structured[1].raised
    /\ structured[1].json.confidence > MaxConfidence
    /\ structured[1].json.is_task
    /\ structured[1].json.task # None
    /\ extraction = Some([is_task |-> FALSE, confidence |-> 0, task |-> None])

\* C14: infer_task_from_message returns None when the classification is
\* 'chat', when is_task is false, when the confidence is below the threshold
\* and when the task details are absent; every proposal it returns has
\* classification 'task', is_task true, confidence >= threshold and details.
C14_GatesReturnNone ==
    ipc = "returned" =>
        /\ classification = Some("chat") => proposal = None
        /\ extraction # None =>
              /\ ~extraction[1].is_task => proposal = None
              /\ extraction[1].confidence < confidence_threshold => proposal = None
              /\ extraction[1].task = None => proposal = None
        /\ proposal # None =>
              /\ classification = Some("task")
              /\ extraction # None
              /\ extraction[1].is_task
              /\ extraction[1].confidence >= confidence_threshold
              /\ extraction[1].task # None

C14_Witness ==
    /\ ipc = "returned"
    /\ proposal = None
    /\ extraction # None
    /\ extraction[1].is_task
    /\ extraction[1].task # None
    /\ extraction[1].confidence = confidence_threshold - 1

\* C15: the first model-client call of infer_task_from_message is the
\* classifier's; the structured-generation call is made iff the classifier
\* returned 'task', after it, and at most once; with 'chat' it is never made.
C15_ClassifierGatesExtractor ==
    /\ ipc # "idle" => model_calls # <<>>
    /\ model_calls # <<>> => model_calls[1] = "generate_text"
    /\ \A i \in DOMAIN model_calls :
          i > 1 => i = 2 /\ model_calls[i] = "generate_structured_async"
    /\ Len(model_calls) = 2 <=> classification = Some("task")
    /\ classification = Some("chat") =>
          /\ ipc = "returned"
          /\ user_prompt = None
          /\ structured = None
          /\ extraction = None

C15_Witness ==
    /\ ipc = "returned"
    /\ classification = Some("chat")
    /\ model_calls = <<"generate_text">>

\* C16: when the classifier returned 'task' and the extraction has is_task
\* true, details present and confidence >= threshold (equality included), the
\* result is a proposal with title, description, due_date, priority and
\* reasoning of the extracted task, the source of the context, the
\* extraction's confidence, and sender, timestamp, channel, subject,
\* message_id and thread_id of the context in its source_context.
C16_ProposalCopiesFields ==
    (/\ ipc = "returned"
     /\ classification = Some("task")
     /\ extraction # None
     /\ extraction[1].is_task
     /\ extraction[1].task # None
     /\ extraction[1].confidence >= confidence_threshold) =>
        /\ proposal # None
        /\ LET p == proposal[1]
               t == extraction[1].task[1]
               c == context[1]
           IN  /\ p.title = t.title
               /\ p.description = t.description
               /\ p.due_date = t.due_date
               /\ p.priority = t.priority
               /\ p.reasoning = t.reasoning
               /\ p.source = c.source
               /\ p.confidence = extraction[1].confidence
               /\ p.source_context.sender = c.sender
               /\ p.source_context.timestamp = c.timestamp
               /\ p.source_context.channel = c.channel
               /\ p.source_context.subject = c.subject
               /\ p.source_context.message_id = c.message_id
               /\ p.source_context.thread_id = c.thread_id

C16_Witness ==
    /\ ipc = "returned"
    /\ proposal # None
    /\ confidence_threshold = DefaultThreshold
    /\ proposal[1].confidence = DefaultThreshold
    /\ proposal[1].description # None
    /\ proposal[1].source = "gmail"

\* C17: original_content is the prefix of the content of length
\* min(len(content), 1000); the content in the classification prompt is the
\* prefix of length min(len(content), 500); the extractor receives the full
\* content.
C17_TruncatedPrefixes ==
    /\ prompt # None =>
          LET m == prompt[1].message
              c == context[1].content
          IN  /\ Len(m) = (IF Len(c) < 500 THEN Len(c) ELSE 500)
              /\ \A i \in DOMAIN m : m[i] = c[i]
    /\ user_prompt # None => user_prompt[1].content = context[1].content
    /\ proposal # None =>
          LET o == proposal[1].source_context.original_content
              c == context[1].content
          IN  /\ Len(o) = (IF Len(c) < 1000 THEN Len(c) ELSE 1000)
              /\ \A i \in DOMAIN o : o[i] = c[i]

C17_Witness ==
    /\ proposal # None
    /\ Len(context[1].content) = 1001
    /\ Len(proposal[1].source_context.original_content) = 1000
    /\ Len(prompt[1].message) = 500
    /\ Len(user_prompt[1].content) = 1001

\* C18: when the model client fails during the extraction (it raises, or its
\* text fails validation), infer_task_from_message returns None and no error reaches its caller,
\* whatever the classifier did; when it fails in both stages the classifier
\* returned 'task', the extraction is the fail-closed one and the result is
\* None.
C18_ExtractionFailureIsSilent ==
    /\ ipc # "raised"
    /\ ExtractionFailed =>
          /\ ipc = "returned"
          /\ proposal = None
          /\ (generated # None /\ generated[1].raised) =>
                /\ classification = Some("task")
                /\ extraction =
                      Some([is_task |-> FALSE, confidence |-> 0, task |-> None])

C18_Witness ==
    /\ ipc = "returned"
    /\ generated # None /\ generated[1].raised
    /\ structured # None /\ structured[1].raised
    /\ proposal = None

\* C19 as stated: every TaskExtraction extract_task_details returns has task
\* details iff is_task is true and the extraction call succeeded.
C19_TaskIffIsTask ==
    extraction # None =>
        (extraction[1].task # None
            <=> (extraction[1].is_task /\ ExtractionSucceeded))

\* C19 amended: a returned TaskExtraction has task details only if the
\* extraction call succeeded; after a failed call is_task is false and the
\* details are absent; after a successful call it holds what the model
\* client returned, whether or not is_task and the details agree.
C19_TaskOnlyIfSucceeded ==
    extraction # None =>
        /\ extraction[1].task # None => ExtractionSucceeded
        /\ ExtractionFailed =>
              ~extraction[1].is_task /\ extraction[1].task = None
        /\ ExtractionSucceeded =>
              /\ extraction[1].is_task = structured[1].json.is_task
              /\ extraction[1].task = structured[1].json.task

C19_Witness ==
    /\ extraction # None
    /\ ExtractionSucceeded
    /\ extraction[1].is_task
    /\ extraction[1].task = None
    /\ extraction[1].confidence = MaxConfidence

\* C20: any two proposals built by different calls of
\* infer_task_from_message have different proposal_id values.
C20_FreshProposalIds ==
    \A i, j \in DOMAIN created : i # j => created[i] # created[j]

\* ============================================================ chat endpoint
\* routers/chat.py: the generator generate() behind the StreamingResponse of
\* POST /api/chat.  It fetches the connected apps and their tools, calls
\* stream_chat and relays every chunk as one SSE record; its except branch
\* handles whatever is raised on the way.  The steps of stream_chat are those
\* of the first part, each followed by the body of the async for of
\* generate() for the chunks the step yielded.

\* toolkit names get_connections can return: none, or some
ConnectedApps == {<<>>, <<"GMAIL", "SLACK">>}

\* what get_tools can return for a non-empty list of apps: tools, or {} (no
\* tool has a name, or the fetch failed: except Exception -> return {})
ToolSets == {{}, {"GMAIL_FETCH_EMAILS", "SLACK_SEARCH"}}

ComposioExceptions == {"composio failed"}
SetupExceptions == {"model set-up failed"}
SerializeException == "Object of type datetime is not JSON serializable"

\* composio_service.execute_action, the executor of the endpoint, returns
\* {"error": str(e)} where the client raises; it raises nothing itself
ActionResults == ToolResults \cup {ErrorResult(e) : e \in ToolExceptions}

\* the step budget of the endpoint, max_steps=5, capped by the bound on the
\* step budgets explored
ChatSteps == IF ChatMaxSteps < MaxStepsBound THEN ChatMaxSteps ELSE MaxStepsBound

\* json.dumps(chunk), without default=, accepts the chunk: of the chunks
\* stream_chat yields only a tool_result carrying an executor's result can
\* hold a value it rejects, and of the results modelled it rejects the one
\* Struct.update rejects too (a datetime)
JsonSerializable(chunk) ==
    chunk.type = "tool_result" => chunk.result.convertible

\* f"data: {json.dumps(chunk)}\n\n"
DataRecord(chunk) == [prefix |-> "data: ", json |-> chunk]

\* "data: [DONE]\n\n"
DoneRecord == [prefix |-> "data: ", literal |-> "[DONE]"]

\* f"data: {json.dumps({'type': 'error', 'content': str(e)})}\n\n"
ErrorRecord(e) == DataRecord(ErrorEvent(e))

\* the except branch without its second yield
ExceptBranchNoDone(recs, e) == recs \o <<ErrorRecord(e)>>

\* except Exception as e: yield the error record, yield "data: [DONE]"
ExceptBranch(recs, e) == recs \o <<ErrorRecord(e), DoneRecord>>

\* the body of the async for, run for the chunks in order: each chunk is
\* yielded as a record until json.dumps raises on one
RECURSIVE Relay(_, _)
Relay(recs, chunks) ==
    IF chunks = <<>>
        THEN [records |-> recs, raised |-> FALSE]
        ELSE IF JsonSerializable(Head(chunks))
                THEN Relay(Append(recs, DataRecord(Head(chunks))), Tail(chunks))
                ELSE [records |-> recs, raised |-> TRUE]

\* the exception e reaches the except branch of generate()
Handle(e) ==
    /\ records' = ExceptBranch(records, e)
    /\ handled' = Some(e)
    /\ gpc' = "finished"

\* the response starts: generate() is iterated
ChatRequest ==
    /\ gpc = "idle"
    /\ pc = "idle"
    /\ gpc' = "connections"
    /\ UNCHANGED <<connected_apps, tools, records, handled, vars>>

\* connected_apps = composio_service.get_connections(x_entity_id); without
\* connected apps tools stays {}
GetConnectionsReturns(apps) ==
    /\ gpc = "connections"
    /\ connected_apps' = apps
    /\ tools' = {}
    /\ gpc' = IF apps # <<>> THEN "tools" ELSE "call"
    /\ UNCHANGED <<records, handled, vars>>

\* get_connections raises (the client call in it is not guarded)
GetConnectionsRaises(e) ==
    /\ gpc = "connections"
    /\ Handle(e)
    /\ UNCHANGED <<connected_apps, tools, vars>>

\* tools = composio_service.get_tools(x_entity_id, connected_apps)
GetToolsReturns(ts) ==
    /\ gpc = "tools"
    /\ tools' = ts
    /\ gpc' = "call"
    /\ UNCHANGED <<connected_apps, records, handled, vars>>

\* gemini_service.stream_chat(messages=..., tools=tools if tools else None,
\* max_steps=5, execute_tool=execute_tool if tools else None): the first
\* iteration runs the code of stream_chat before its loop
ChatStreamChat(roles) ==
    /\ gpc = "call"
    /\ pc = "idle"
    /\ LET msgs == MessageOf(roles) IN
          /\ messages' = msgs
          /\ max_steps' = ChatSteps
          /\ execute_tool' = (tools # {})
          /\ history' = IF Len(msgs) > 1
                            THEN _convert_messages(SubSeq(msgs, 1, Len(msgs) - 1))
                            ELSE <<>>
          /\ current_message' = IF msgs # <<>>
                                    THEN TextMessage(msgs[Len(msgs)].content)
                                    ELSE TextMessage(<<>>)
    /\ step' = 0
    /\ pc' = "loop"
    /\ gpc' = "stream"
    /\ UNCHANGED <<stepVars, events, event_step, envVars>>
    /\ UNCHANGED <<connected_apps, tools, records, handled>>

\* the code of stream_chat before its try (_build_tools, GenerativeModel,
\* start_chat) raises: the exception leaves stream_chat and is handled here
ChatSetupRaises(e) ==
    /\ gpc = "call"
    /\ Handle(e)
    /\ UNCHANGED <<connected_apps, tools, vars>>

\* a step A of stream_chat while generate() iterates it: the chunks the step
\* yields go through the body of the async for; when json.dumps raises on a
\* chunk the except branch ends the response and stream_chat is never
\* resumed (what the step did past that yield is then without effect: no
\* later step exists); when stream_chat finishes, "data: [DONE]" follows
Relayed(A) ==
    /\ gpc = "stream"
    /\ A
    /\ LET r == Relay(records, SubSeq(events', Len(events) + 1, Len(events')))
       IN  IF r.raised
              THEN /\ records' = ExceptBranch(r.records, SerializeException)
                   /\ handled' = Some(SerializeException)
                   /\ gpc' = "finished"
              ELSE IF pc' = "terminated"
                      THEN /\ records' = Append(r.records, DoneRecord)
                           /\ gpc' = "finished"
                           /\ UNCHANGED handled
                      ELSE /\ records' = r.records
                           /\ UNCHANGED <<gpc, handled>>
    /\ UNCHANGED <<connected_apps, tools>>

ChatNext ==
    \/ ChatRequest /\ UNCHANGED outsideRouter
    \/ (\E apps \in ConnectedApps : GetConnectionsReturns(apps)) /\ UNCHANGED outsideRouter
    \/ (\E e \in ComposioExceptions : GetConnectionsRaises(e)) /\ UNCHANGED outsideRouter
    \/ (\E ts \in ToolSets : GetToolsReturns(ts)) /\ UNCHANGED outsideRouter
    \/ (\E roles \in MessageLists : ChatStreamChat(roles)) /\ UNCHANGED outsideRouter
    \/ (\E e \in SetupExceptions : ChatSetupRaises(e)) /\ UNCHANGED outsideRouter
    \/ Relayed(SendMessage) /\ UNCHANGED outsideRouter
    \/ Relayed(\E e \in ModelExceptions : SendMessageRaises(e)) /\ UNCHANGED outsideRouter
    \/ Relayed(LoopExit) /\ UNCHANGED outsideRouter
    \/ Relayed(\E c \in Chunks : NextChunk(c)) /\ UNCHANGED outsideRouter
    \/ Relayed(\E e \in ModelExceptions : StreamRaises(e)) /\ UNCHANGED outsideRouter
    \/ Relayed(StreamEnd) /\ UNCHANGED outsideRouter
    \/ Relayed(InvokeTool) /\ UNCHANGED outsideRouter
    \/ Relayed(\E r \in ActionResults : ToolReturns(r)) /\ UNCHANGED outsideRouter
    \/ Relayed(ToolsDone) /\ UNCHANGED outsideRouter

ChatSpec == Init /\ [][ChatNext]_allVars

DoneRecords == {i \in DOMAIN records : records[i] = DoneRecord}

ErrorRecords ==
    {i \in DOMAIN records :
        records[i] # DoneRecord /\ records[i].json.type = "error"}

\* the records of the chunks stream_chat yielded
RelayedEvents == [i \in DOMAIN events |-> DataRecord(events[i])]

\* C25: the response holds "data: [DONE]" exactly once, as its last record,
\* once generate() has finished and not before.  When the agent loop
\* completed, the records before it are those of the loop's events, in order
\* ('done' included); when an exception reached the except branch of
\* generate(), the record before it is the error record of that exception,
\* the first record of the response when get_connections or the set-up of
\* stream_chat raised.  The response holds at most one error record.
C25_DoneRecordLast ==
    /\ \A i \in DoneRecords : i = Len(records) /\ gpc = "finished"
    /\ gpc = "finished" => Cardinality(DoneRecords) = 1
    /\ Cardinality(ErrorRecords) <= 1
    /\ (gpc = "finished" /\ handled = None) =>
          /\ pc = "terminated"
          /\ records = RelayedEvents \o <<DoneRecord>>
    /\ handled # None =>
          /\ gpc = "finished"
          /\ Len(records) >= 2
          /\ records[Len(records) - 1] = ErrorRecord(handled[1])
          /\ pc = "idle" => records = <<ErrorRecord(handled[1]), DoneRecord>>
          /\ \A i \in 1..(Len(records) - 2) : records[i] = DataRecord(events[i])

C25_Witness ==
    /\ gpc = "finished"
    /\ handled = Some(SerializeException)
    /\ Len(records) >= 4
    /\ Last(records) = DoneRecord

\* =========================================================== proposal store
\* services/redis_service.py (add_proposal, get_proposals, remove_proposal)
\* and routers/proposals.py (delete_proposal, execute_proposal).  The Redis
\* list holds JSON texts, newest first.  A request is suspended at each Redis
\* command it awaits; the steps of different requests interleave there.  One
\* step is a Redis command together with the code of the request up to its
\* next command; composio_service.execute_action is a step of its own.

Requests == 1..MaxRequests

\* proposal.model_dump() of the proposal of the k-th call of add_proposal:
\* the fields the store and the routers look at; proposals differ in their
\* content, if not in their ids
StoredProposal(id, k) == [proposal_id |-> id, title |-> <<"task", k>>]

\* the older proposals of a long list: ProposalLimit - 1 of them, with ids
\* of their own
BacklogId(i) == (IF i < 10 THEN "0000000" ELSE "000000") \o ToString(i)

Backlog ==
    [i \in 1..(ProposalLimit - 1) |->
        [proposal_id |-> BacklogId(i), title |-> <<"older", i>>]]

\* the value of the setting notion_database_id once a database is selected
DatabaseIds == {"db-1"}

\* what composio_service.execute_action returns for
\* NOTION_UPSERT_ROW_DATABASE: a result, or {"error": str(e)}
NotionResults == {[data |-> "page-1"], [error |-> "notion failed"]}

\* "error" in result
HasError(result) == "error" \in DOMAIN result

\* json.dumps(proposal) and json.loads(item)
json_dumps(p) == [json |-> p]

json_loads(item) == item.json

Min(S) == CHOOSE x \in S : \A y \in S : x <= y

\* get_proposals(entity_id): lrange(key, 0, limit - 1) with limit = 50, each
\* item parsed
get_proposals(list) ==
    [i \in 1..(IF Len(list) < ProposalLimit THEN Len(list) ELSE ProposalLimit) |->
        json_loads(list[i])]

\* for p in proposals: if p.get("proposal_id") == proposal_id: ...; break
FindProposal(ps, id) ==
    LET ks == {i \in DOMAIN ps : ps[i].proposal_id = id}
    IN  IF ks = {} THEN None ELSE Some(ps[Min(ks)])

RemoveIndex(list, k) == SubSeq(list, 1, k - 1) \o SubSeq(list, k + 1, Len(list))

Occurrences(list, item) == {i \in DOMAIN list : list[i] = item}

\* lrem(key, 1, item): remove the first element equal to item
Lrem(list, item) ==
    IF Occurrences(list, item) = {}
        THEN list
        ELSE RemoveIndex(list, Min(Occurrences(list, item)))

\* number of modifications of the list so far
Writes == Len(added) + Len(removals)

SingleAdds == {i \in DOMAIN added : json_loads(added[i]).proposal_id \in ProposalIds}

SetFrame(r, f) == req' = [req EXCEPT ![r] = f]

\* the request ends with an HTTP response
Respond(r, f, status) ==
    SetFrame(r, [f EXCEPT !.status = status, !.rpc = "done"])

\* add_proposal(entity_id, proposal): lpush(key, json.dumps(proposal))
AddProposal(p) ==
    /\ Cardinality(SingleAdds) < MaxStored
    /\ stored' = <<json_dumps(p)>> \o stored
    /\ added' = Append(added, json_dumps(p))
    /\ UNCHANGED <<notion_database_id, req, removals, rows>>

\* ProposalLimit - 1 calls of add_proposal, one after the other, before the
\* first request of the router arrives
AddBacklog ==
    /\ SingleAdds = DOMAIN added
    /\ \A r \in Requests : req[r].rpc = "new"
    /\ LET items == [i \in DOMAIN Backlog |-> json_dumps(Backlog[i])] IN
          /\ stored' = [i \in DOMAIN items |-> items[Len(items) + 1 - i]] \o stored
          /\ added' = added \o items
    /\ UNCHANGED <<notion_database_id, req, removals, rows>>

\* routers/notion.py, save_notion_settings:
\* set_user_setting(USER_ID, "notion_database_id", request.database_id)
SaveNotionSettings(db) ==
    /\ notion_database_id = None
    /\ notion_database_id' = Some(db)
    /\ UNCHANGED <<stored, req, added, removals, rows>>

\* POST /api/proposals/execute arrives
ExecuteCall(r, id) ==
    /\ req[r].rpc = "new"
    /\ \A q \in 1..(r - 1) : req[q].rpc # "new"
    /\ SetFrame(r, [req[r] EXCEPT !.op = "execute", !.proposal_id = id,
                                  !.rpc = "setting"])
    /\ UNCHANGED <<stored, notion_database_id, added, removals, rows>>

\* DELETE /api/proposals/{proposal_id} arrives
DeleteCall(r, id) ==
    /\ req[r].rpc = "new"
    /\ \A q \in 1..(r - 1) : req[q].rpc # "new"
    /\ SetFrame(r, [req[r] EXCEPT !.op = "delete", !.proposal_id = id,
                                  !.rpc = "rm_lrange"])
    /\ UNCHANGED <<stored, notion_database_id, added, removals, rows>>

\* database_id = await get_user_setting(...); if not database_id: 400
GetSetting(r) ==
    /\ req[r].rpc = "setting"
    /\ IF notion_database_id = None
          THEN Respond(r, req[r], 400)
          ELSE SetFrame(r, [req[r] EXCEPT !.database_id = notion_database_id,
                                          !.rpc = "lrange"])
    /\ UNCHANGED <<stored, notion_database_id, added, removals, rows>>

\* proposals = await get_proposals(USER_ID); find the proposal; 404 without
ExecuteLrange(r) ==
    /\ req[r].rpc = "lrange"
    /\ LET p == FindProposal(get_proposals(stored), req[r].proposal_id) IN
          IF p = None
             THEN Respond(r, req[r], 404)
             ELSE SetFrame(r, [req[r] EXCEPT !.found = p, !.rpc = "action"])
    /\ UNCHANGED <<stored, notion_database_id, added, removals, rows>>

\* ExecuteAction without the test of "error" in result
ExecuteActionIgnoresError(r, result) ==
    /\ req[r].rpc = "action"
    /\ rows' = IF HasError(result)
                  THEN rows
                  ELSE Append(rows, [request |-> r,
                                     item |-> json_dumps(req[r].found[1])])
    /\ SetFrame(r, [req[r] EXCEPT !.result = Some(result),
                                  !.rpc = "rm_lrange"])
    /\ UNCHANGED <<stored, notion_database_id, added, removals>>

\* result = await composio_service.execute_action(...); if "error" in
\* result: 500; otherwise go on to remove_proposal
ExecuteAction(r, result) ==
    /\ req[r].rpc = "action"
    /\ rows' = IF HasError(result)
                  THEN rows
                  ELSE Append(rows, [request |-> r,
                                     item |-> json_dumps(req[r].found[1])])
    /\ IF HasError(result)
          THEN Respond(r, [req[r] EXCEPT !.result = Some(result)], 500)
          ELSE SetFrame(r, [req[r] EXCEPT !.result = Some(result),
                                          !.rpc = "rm_lrange"])
    /\ UNCHANGED <<stored, notion_database_id, added, removals>>

\* remove_proposal: proposals = await get_proposals(entity_id); find the
\* proposal; return False without.  delete_proposal answers 404 to False,
\* execute_proposal ignores the return value
RemoveLrange(r) ==
    /\ req[r].rpc = "rm_lrange"
    /\ LET p == FindProposal(get_proposals(stored), req[r].proposal_id) IN
          IF p = None
             THEN Respond(r, [req[r] EXCEPT !.returned = Some(FALSE)],
                          IF req[r].op = "delete" THEN 404 ELSE 200)
             ELSE SetFrame(r, [req[r] EXCEPT !.to_remove = p,
                                             !.version = Writes,
                                             !.rpc = "rm_lrem"])
    /\ UNCHANGED <<stored, notion_database_id, added, removals, rows>>

\* remove_proposal: removed = await lrem(key, 1, json.dumps(proposal_to_remove));
\* return removed > 0
RemoveLrem(r) ==
    /\ req[r].rpc = "rm_lrem"
    /\ LET item == json_dumps(req[r].to_remove[1])
           hit == Occurrences(stored, item) # {}
       IN  /\ stored' = Lrem(stored, item)
           /\ removals' = IF hit
                             THEN Append(removals, [request |-> r, item |-> item])
                             ELSE removals
           /\ Respond(r, [req[r] EXCEPT !.returned = Some(hit)],
                      IF req[r].op = "delete" /\ ~hit THEN 404 ELSE 200)
    /\ UNCHANGED <<notion_database_id, added, rows>>

\* a Redis command of the request raises: except Exception -> 500
RedisRaises(r) ==
    /\ req[r].rpc \in {"setting", "lrange", "rm_lrange", "rm_lrem"}
    /\ Respond(r, req[r], 500)
    /\ UNCHANGED <<stored, notion_database_id, added, removals, rows>>

StoreNext ==
    \/ (\E id \in ProposalIds : AddProposal(StoredProposal(id, Len(added) + 1))) /\ UNCHANGED outsideStore
    \/ AddBacklog /\ UNCHANGED outsideStore
    \/ (\E db \in DatabaseIds : SaveNotionSettings(db)) /\ UNCHANGED outsideStore
    \/ (\E r \in Requests, id \in ProposalIds : ExecuteCall(r, id)) /\ UNCHANGED outsideStore
    \/ (\E r \in Requests, id \in ProposalIds : DeleteCall(r, id)) /\ UNCHANGED outsideStore
    \/ (\E r \in Requests : GetSetting(r)) /\ UNCHANGED outsideStore
    \/ (\E r \in Requests : ExecuteLrange(r)) /\ UNCHANGED outsideStore
    \/ (\E r \in Requests, result \in NotionResults : ExecuteAction(r, result)) /\ UNCHANGED outsideStore
    \/ (\E r \in Requests : RemoveLrange(r)) /\ UNCHANGED outsideStore
    \/ (\E r \in Requests : RemoveLrem(r)) /\ UNCHANGED outsideStore
    \/ (\E r \in Requests : RedisRaises(r)) /\ UNCHANGED outsideStore

StoreSpec == Init /\ [][StoreNext]_allVars

\* a proposal with this id is stored
HasId(list, id) ==
    \E i \in DOMAIN list : json_loads(list[i]).proposal_id = id

\* this step is the return of remove_proposal in request r
RemoveReturns(r) == req[r].returned = None /\ req'[r].returned # None

\* no other request or add_proposal changed the list since remove_proposal
\* of request r read it
Undisturbed(r) == req[r].rpc = "rm_lrange" \/ req[r].version = Writes

\* C23: a call of remove_proposal that no other writer disturbs returns True
\* iff a proposal with the id is stored, whatever its position; when it
\* returns True exactly one entry, one with that id, is gone and the others
\* keep their order; when it returns False the list is unchanged.
C23_RemoveIffStored ==
    [][\A r \in Requests :
          (RemoveReturns(r) /\ Undisturbed(r)) =>
              LET id == req[r].proposal_id
                  ret == req'[r].returned[1]
              IN  /\ ret <=> HasId(stored, id)
                  /\ ret => \E k \in DOMAIN stored :
                               /\ json_loads(stored[k]).proposal_id = id
                               /\ stored' = RemoveIndex(stored, k)
                  /\ ~ret => stored' = stored]_allVars

\* C24: execute_proposal removes an entry, one with the id of the request,
\* only after execute_action has returned a result without the key 'error'
\* for a proposal with that id; a request that found no
\* database setting, did not find the proposal, or got a result with 'error'
\* ends with an HTTP error status and has removed nothing; the list changes
\* only by the additions and the removals recorded.
RemovedBy(r) == {i \in DOMAIN removals : removals[i].request = r}

C24_RemoveOnlyAfterSuccess ==
    /\ Len(stored) + Len(removals) = Len(added)
    /\ \A r \in Requests :
          req[r].op = "execute" =>
             /\ \A i \in RemovedBy(r) :
                   json_loads(removals[i].item).proposal_id = req[r].proposal_id
             /\ RemovedBy(r) # {} =>
                   /\ req[r].result # None
                   /\ ~HasError(req[r].result[1])
                   /\ Cardinality(RemovedBy(r)) = 1
                   /\ req[r].status = 200
             /\ (/\ req[r].rpc = "done"
                 /\ \/ req[r].database_id = None
                    \/ req[r].found = None
                    \/ req[r].result # None /\ HasError(req[r].result[1]))
                   => /\ req[r].status \in {400, 404, 500}
                      /\ RemovedBy(r) = {}
             /\ (req[r].status = 400) => req[r].database_id = None
             /\ (req[r].status = 404) =>
                   req[r].database_id # None /\ req[r].found = None
             /\ (req[r].result # None /\ HasError(req[r].result[1])) =>
                   req[r].status = 500
             /\ (req[r].status = 200) =>
                   req[r].result # None /\ ~HasError(req[r].result[1])

C24_Witness ==
    /\ req[1].op = "execute" /\ req[1].status = 500
    /\ req[1].result # None /\ HasError(req[1].result[1])
    /\ req[2].op = "execute" /\ req[2].status = 200
    /\ RemovedBy(2) # {}
    /\ req[1].proposal_id = req[2].proposal_id

\* C29: no stored proposal has more Notion rows created for it than it was
\* stored: two rows carry different items, unless the item was added twice.
Count(seq, x) == Cardinality({i \in DOMAIN seq : seq[i] = x})

C29_AtMostOneRowPerProposal ==
    \A i \in DOMAIN rows :
        Cardinality({j \in DOMAIN rows : rows[j].item = rows[i].item})
            <= Count(added, rows[i].item)

\* ======================================================== trigger listener
\* services/trigger_listener.py: TriggerListener subscribes to the Gmail and
\* Slack triggers, filters their events, runs infer_task_from_message on what
\* is left and pushes the proposal to the Redis list. One handler coroutine
\* is followed at a time: the handlers share nothing but the Redis list.

\* ------------------------------------------------------------ event texts
SubjectPrefix == <<"S", "u", "b", "j", "e", "c", "t", ":", " ">>
BlankLine == <<"\n", "\n">>

BodyText == <<"p", "a", "y", " ", "b", "y", " ", "f", "r", "i">>
SnippetText == <<"p", "a", "y">>
SubjectText == <<"d", "u", "e">>

PlainText == <<"h", "i">>
HereText == <<"<", "!", "h", "e", "r", "e", ">", " ", "s", "h", "i", "p">>
AtChannelText == <<"@", "c", "h", "a", "n", "n", "e", "l", " ", "g", "o">>
DirectText == <<"<", "@", "U", "1", ">", " ", "g", "o">>

\* payload.get(key, "") or ... : an absent key and an empty string are both <<>>
\* an email with nothing in it, one with a snippet only, one with a subject
\* only, and one with everything
GmailPayloads ==
    { [body |-> <<>>, snippet |-> <<>>, subject |-> <<>>],
      [body |-> <<>>, snippet |-> SnippetText, subject |-> <<>>],
      [body |-> <<>>, snippet |-> <<>>, subject |-> SubjectText],
      [body |-> BodyText, snippet |-> SnippetText, subject |-> SubjectText] }

SlackPayloads ==
    { [text |-> t, bot_id |-> b, subtype |-> st, thread_ts |-> None] :
        t \in {<<>>, PlainText, HereText, AtChannelText, DirectText},
        b \in {None, Some("B012")},
        st \in {None, Some("bot_message")} }

\* --------------------------------------------------------------- filters
BroadcastPatterns ==
    { <<"<", "!", "h", "e", "r", "e", ">">>,
      <<"<", "!", "c", "h", "a", "n", "n", "e", "l", ">">>,
      <<"<", "!", "e", "v", "e", "r", "y", "o", "n", "e", ">">> }

PlainPatterns ==
    { <<"@", "h", "e", "r", "e">>,
      <<"@", "c", "h", "a", "n", "n", "e", "l">>,
      <<"@", "e", "v", "e", "r", "y", "o", "n", "e">> }

\* is_user_mentioned(text, slack_user_id): slack_user_id is None or Some(id),
\* id the characters of the Slack user id
is_user_mentioned(text, slack_user_id) ==
    \/ \E pat \in BroadcastPatterns : Contains(pat, text)
    \/ /\ slack_user_id # None
       /\ Contains(<<"<", "@">> \o slack_user_id[1] \o <<">">>, text)
    \/ \E pat \in PlainPatterns : Contains(pat, lower(text))

\* handle_gmail: body = payload.get("body", "") or payload.get("snippet", "") or ""
GmailBody(payload) ==
    IF payload.body # <<>> THEN payload.body ELSE payload.snippet

\* handle_gmail: "if not body and not subject: return"
GmailSkipped(payload) == GmailBody(payload) = <<>> /\ payload.subject = <<>>

\* handle_gmail: content = f"Subject: {subject}\n\n{body}" if subject else body
GmailContentRawBody(payload) ==
    IF payload.subject # <<>>
        THEN SubjectPrefix \o payload.subject \o BlankLine \o payload.body
        ELSE payload.body

GmailContent(payload) ==
    IF payload.subject # <<>>
        THEN SubjectPrefix \o payload.subject \o BlankLine \o GmailBody(payload)
        ELSE GmailBody(payload)

\* handle_gmail: the MessageContext built from the payload
GmailContext(payload) ==
    [source       |-> "gmail",
     content      |-> GmailContent(payload),
     sender       |-> "ann@example.com",
     timestamp    |-> "1704276000",
     channel      |-> None,
     channel_type |-> None,
     thread_id    |-> None,
     subject      |-> Some(payload.subject),
     message_id   |-> Some("18cd3a"),
     is_reply     |-> None]

\* handle_slack: no text, a bot message, or no mention (is_user_mentioned is
\* called without a slack_user_id)
SlackSkipped(payload) ==
    \/ payload.text = <<>>
    \/ payload.bot_id # None
    \/ payload.subtype = Some("bot_message")
    \/ ~is_user_mentioned(payload.text, None)

\* handle_slack: the MessageContext built from the payload
SlackContext(payload) ==
    [source       |-> "slack",
     content      |-> payload.text,
     sender       |-> "U024BE7LH",
     timestamp    |-> "1704276000.000200",
     channel      |-> Some("C024BE91L"),
     channel_type |-> Some("channel"),
     thread_id    |-> payload.thread_ts,
     subject      |-> None,
     message_id   |-> None,
     is_reply     |-> None]

\* proposal.model_dump(): the dict of the model's fields
model_dump(p) == [f \in DOMAIN p |-> p[f]]

\* the property is_running
is_running == running /\ thread # "none" /\ thread = "alive"

\* --------------------------------------------------------------- actions
\* start(gmail_trigger_id, slack_trigger_id, event_loop): gmail and slack say
\* which trigger ids were given
Start(gmail, slack) ==
    /\ thread = "none"
    /\ handlers = {}
    /\ ~stop_returned
    /\ IF ~gmail /\ ~slack
          THEN UNCHANGED <<running, handlers, thread>>
          ELSE /\ running' = TRUE
               /\ handlers' = (IF gmail THEN {"gmail"} ELSE {})
                                 \cup (IF slack THEN {"slack"} ELSE {})
               /\ thread' = "alive"
    /\ UNCHANGED <<stop_returned, lpc, log>>

\* start: triggers.subscribe(), subscription.handle or Thread.start raises;
\* the except clause sets running to False, no thread listens, and the
\* handlers registered before the exception stay registered (Gmail first)
StartRaises(gmail, slack) ==
    /\ thread = "none"
    /\ handlers = {}
    /\ ~stop_returned
    /\ gmail \/ slack
    /\ running' = FALSE
    /\ \E registered \in SUBSET {"gmail", "slack"} :
          /\ "gmail" \in registered => gmail
          /\ "slack" \in registered => slack
          /\ ("slack" \in registered /\ gmail) => "gmail" \in registered
          /\ handlers' = registered
    /\ UNCHANGED <<thread, stop_returned, lpc, log>>

\* stop(): clears the flag; the subscription, its handlers and the thread
\* are left as they are
Stop ==
    /\ ~stop_returned
    /\ running' = FALSE
    /\ stop_returned' = TRUE
    /\ UNCHANGED <<thread, handlers, lpc, log>>

\* listen(): wait_forever() returns or raises; finally running = False
ThreadEnds ==
    /\ thread = "alive"
    /\ running' = FALSE
    /\ thread' = "dead"
    /\ UNCHANGED <<handlers, stop_returned, lpc, log>>

\* the subscription can deliver an event of the source to its handler
Delivers(source) ==
    /\ thread = "alive"
    /\ source \in handlers
    /\ lpc = "idle"
    /\ Len(log) < MaxDelivered

Entry(source, content, passed) ==
    [source |-> source, content |-> content, late |-> stop_returned,
     passed |-> passed, stored |-> FALSE]

\* on_gmail + handle_gmail up to the call of infer_task_from_message
GmailEvent(payload) ==
    /\ Delivers("gmail")
    /\ IF GmailSkipped(payload)
          THEN /\ log' = Append(log, Entry("gmail", GmailContent(payload), FALSE))
               /\ UNCHANGED <<lpc, inferVars>>
          ELSE /\ InferCall(GmailContext(payload), DefaultThreshold)
               /\ lpc' = "gmail"
               /\ log' = Append(log, Entry("gmail", GmailContext(payload).content, TRUE))
    /\ UNCHANGED <<running, thread, handlers, stop_returned>>

\* on_slack + handle_slack up to the call of infer_task_from_message
SlackEvent(payload) ==
    /\ Delivers("slack")
    /\ IF SlackSkipped(payload)
          THEN /\ log' = Append(log, Entry("slack", payload.text, FALSE))
               /\ UNCHANGED <<lpc, inferVars>>
          ELSE /\ InferCall(SlackContext(payload), DefaultThreshold)
               /\ lpc' = "slack"
               /\ log' = Append(log, Entry("slack", SlackContext(payload).content, TRUE))
    /\ UNCHANGED <<running, thread, handlers, stop_returned>>

\* a step of infer_task_from_message awaited by the handler
Awaited(A) ==
    /\ lpc # "idle"
    /\ A
    /\ UNCHANGED <<listenerVars, storeVars>>

\* the handler gets the proposal back: "if proposal:" add_proposal pushes
\* proposal.model_dump() to the list, and the handler ends
HandlerReturns ==
    /\ lpc # "idle"
    /\ InferReturn
    /\ IF proposal # None
          THEN /\ AddProposal(model_dump(proposal[1]))
               /\ log' = [log EXCEPT ![Len(log)].stored = TRUE]
          ELSE UNCHANGED <<storeVars, log>>
    /\ lpc' = "idle"
    /\ UNCHANGED <<running, thread, handlers, stop_returned>>

\* add_proposal raises: the except clause of the handler logs it
AddProposalRaises ==
    /\ lpc # "idle"
    /\ proposal # None
    /\ InferReturn
    /\ lpc' = "idle"
    /\ UNCHANGED <<storeVars, running, thread, handlers, stop_returned, log>>

ListenerNext ==
    \/ (\E gmail \in BOOLEAN, slack \in BOOLEAN : Start(gmail, slack)) /\ UNCHANGED <<vars, inferVars, routerVars, storeVars>>
    \/ (\E gmail \in BOOLEAN, slack \in BOOLEAN : StartRaises(gmail, slack)) /\ UNCHANGED <<vars, inferVars, routerVars, storeVars>>
    \/ Stop /\ UNCHANGED <<vars, inferVars, routerVars, storeVars>>
    \/ ThreadEnds /\ UNCHANGED <<vars, inferVars, routerVars, storeVars>>
    \/ (\E payload \in GmailPayloads : GmailEvent(payload)) /\ UNCHANGED <<vars, routerVars, storeVars>>
    \/ (\E payload \in SlackPayloads : SlackEvent(payload)) /\ UNCHANGED <<vars, routerVars, storeVars>>
    \/ (\E text \in Responses : Awaited(GenerateTextReturns(text))) /\ UNCHANGED <<vars, routerVars>>
    \/ (\E e \in GenerateExceptions : Awaited(GenerateTextRaises(e))) /\ UNCHANGED <<vars, routerVars>>
    \/ (\E json \in JsonResponses : Awaited(GenerateStructuredReturns(json))) /\ UNCHANGED <<vars, routerVars>>
    \/ (\E e \in GenerateExceptions : Awaited(GenerateStructuredRaises(e))) /\ UNCHANGED <<vars, routerVars>>
    \/ HandlerReturns /\ UNCHANGED <<vars, routerVars>>
    \/ AddProposalRaises /\ UNCHANGED <<vars, routerVars>>

ListenerSpec == Init /\ [][ListenerNext]_allVars

\* C21: every trigger event handed to infer_task_from_message, and every
\* prompt handed to the classifier and to the extractor on its behalf, has a
\* content of at least one character; an event whose content is empty is
\* skipped by its handler.
C21_ContentNeverEmpty ==
    /\ \A i \in DOMAIN log :
          /\ log[i].passed => Len(log[i].content) > 0
          /\ (log[i].content = <<>>) => ~log[i].passed
    /\ (lpc # "idle" /\ context # None) => Len(context[1].content) > 0
    /\ (lpc # "idle" /\ prompt # None) => Len(prompt[1].message) > 0
    /\ (lpc # "idle" /\ user_prompt # None) => Len(user_prompt[1].content) > 0

C21_Witness ==
    /\ Len(log) = 1
    /\ log[1].source = "gmail" /\ log[1].passed
    /\ log[1].content = SnippetText
    /\ lpc = "gmail"
    /\ user_prompt # None /\ user_prompt[1].content = SnippetText

\* C30: once stop() has returned, is_running is False, and no event the
\* subscription delivers afterwards reaches infer_task_from_message or the
\* Redis list.
C30_StopEndsHandling ==
    stop_returned =>
        /\ ~is_running
        /\ \A i \in DOMAIN log :
              log[i].late => ~log[i].passed /\ ~log[i].stored

====
